---- MODULE Spec2Model ----
(***************************************************************************)
(* Candidate/job matching core: skill registry and normalizer, multi-factor *)
(* scoring engine, and the match orchestrator with its AI collaborator.     *)
(* Numbers that the program keeps as JavaScript doubles are modelled as     *)
(* exact fractions [n, d]; the fraction with d = 0 is NaN.                  *)
(***************************************************************************)
EXTENDS Integers, Sequences, FiniteSets, TLC

VARIABLES
  pc,          \* position of the running operation
  job,         \* the job under evaluation (local `job` of match / engine input)
  candidate,   \* the candidate under evaluation
  score,       \* MatchingScore returned by calculateMatchingScore
  request,     \* MatchingRequest handed to match
  aiAnalysis,  \* AIAnalysis accumulated by performEnhancedAIAnalysis
  aiQueue,     \* AI collaborator calls still to be issued by the analysis
  aiLog,       \* AI collaborator calls issued so far for the request
  attempt,     \* outbound attempts made by the AI call in flight
  isMockMode,  \* AIService.isMockMode
  outcome,     \* what match handed back: response or raised error
  skillName,   \* argument of normalizeSkill
  normalized,  \* value returned by normalizeSkill
  skillMap,    \* normalizer state: skill by id and by lower-cased name
  aliasMap,    \* normalizer state: canonical name by lower-cased alias
  inputText,   \* argument of extractSkillsFromText
  extraction,  \* SkillExtractionResult returned by extractSkillsFromText
  querySkill1,    \* first argument of areSkillsRelated
  querySkill2,    \* second argument of areSkillsRelated
  areRelated,  \* value returned by areSkillsRelated
  jobs,        \* the job store: the array getAllJobs hands out
  candidates,  \* the candidate store: the array getAllCandidates hands out
  operation,   \* the operation the caller invoked
  limit,       \* the limit parameter of GET /api/matching
  invocations, \* operations invoked so far
  previous,    \* request and outcome of the operation invoked before
  clock,       \* Date.now(), in milliseconds
  lastRequestTime, \* AIService.lastRequestTime
  callerPc,    \* position of each concurrent makeOpenAICall
  wakeAt,      \* when the timer a call awaits fires
  attempts,    \* the loop variable attempt of each call
  sent,        \* outbound OpenAI requests: caller, attempt, time
  aiCache,     \* AIService.aiCache: entries of key and content
  callerCall,  \* the method call each caller makes
  callerResult, \* what makeOpenAICall and the method returned
  currentYear, \* new Date().getFullYear() when the operations are called
  dataCache,   \* performance optimizer: dataCache, entries in insertion order
  cacheReply,  \* the optimizer's cache operation called last and its result
  debounceTimers, \* performance optimizer: debounceTimers, entries of key and timer
  liveTimers,  \* timers set and neither fired nor cleared
  runs,        \* calls of debounced functions and runs of their func, in order
  timerCount   \* timers created so far

\* arguments and results of the normalizer's text and relatedness queries
queryVars == <<inputText, extraction, querySkill1, querySkill2, areRelated>>

\* the data store
storeVars == <<jobs, candidates>>

\* what the caller asked for, now and before
callVars == <<operation, limit, invocations, previous>>

\* the rate limiter of the AI service and the calls passing through it
rateVars == <<clock, lastRequestTime, callerPc, wakeAt, attempts, sent, aiCache, callerCall, callerResult, currentYear>>

\* the performance optimizer's cache and debounce timers
optVars == <<dataCache, cacheReply, debounceTimers, liveTimers, runs, timerCount>>

vars == <<pc, job, candidate, score, request, aiAnalysis, aiQueue, aiLog,
          attempt, isMockMode, outcome, skillName, normalized, skillMap,
          aliasMap, queryVars, storeVars, callVars,
                 rateVars, optVars>>

Undefined == [undefined |-> TRUE]

RATE_LIMIT_DELAY == 1000

MaxCallers == 3

Callers == 1..MaxCallers

\* the AI service as constructed, no call of makeOpenAICall under way; the
\* clock is far enough from 0 for the first call to pass without delay
RateIdle ==
  /\ clock = RATE_LIMIT_DELAY
  /\ lastRequestTime = 0
  /\ callerPc = [p \in Callers |-> "ready"]
  /\ wakeAt = [p \in Callers |-> 0]
  /\ attempts = [p \in Callers |-> 0]
  /\ sent = <<>>
  /\ aiCache = <<>>
  /\ callerCall = [p \in Callers |-> Undefined]
  /\ callerResult = [p \in Callers |-> Undefined]

\* the performance optimizer as created: nothing cached, no timer set
OptimizerIdle ==
  /\ dataCache = <<>>
  /\ cacheReply = Undefined
  /\ debounceTimers = {}
  /\ liveTimers = {}
  /\ runs = <<>>
  /\ timerCount = 0

\* one direct call of match is in progress and none was made before
CallIdle ==
  /\ operation = "match"
  /\ limit = 10
  /\ invocations = 1
  /\ previous = Undefined

\* no query of the normalizer has been made
QueryIdle ==
  /\ inputText = ""
  /\ extraction = Undefined
  /\ querySkill1 = ""
  /\ querySkill2 = ""
  /\ areRelated = Undefined

(***************************************************************************)
(* Skill registry (data/skills.ts)                                          *)
(***************************************************************************)
skills ==
  <<
    [id |-> "react", canonicalName |-> "React",
     aliases |-> <<"ReactJS", "React.js", "ReactJS", "React Native">>,
     relatedSkills |-> <<"javascript", "typescript", "jsx", "redux", "nextjs">>,
     difficultyLevel |-> 3, timeToProficiency |-> 6],
    [id |-> "javascript", canonicalName |-> "JavaScript",
     aliases |-> <<"JS", "ES6", "ES2015", "ECMAScript">>,
     relatedSkills |-> <<"typescript", "react", "vue", "angular", "nodejs">>,
     difficultyLevel |-> 2, timeToProficiency |-> 4],
    [id |-> "typescript", canonicalName |-> "TypeScript",
     aliases |-> <<"TS", "TypeScript">>,
     relatedSkills |-> <<"javascript", "react", "angular", "nodejs">>,
     difficultyLevel |-> 3, timeToProficiency |-> 3],
    [id |-> "vue", canonicalName |-> "Vue.js",
     aliases |-> <<"Vue", "VueJS", "Vue.js">>,
     relatedSkills |-> <<"javascript", "typescript", "vuex", "nuxt">>,
     difficultyLevel |-> 3, timeToProficiency |-> 5],
    [id |-> "angular", canonicalName |-> "Angular",
     aliases |-> <<"AngularJS", "Angular 2+", "Angular">>,
     relatedSkills |-> <<"typescript", "javascript", "rxjs", "ngrx">>,
     difficultyLevel |-> 4, timeToProficiency |-> 8],
    [id |-> "nodejs", canonicalName |-> "Node.js",
     aliases |-> <<"NodeJS", "Node", "Node.js">>,
     relatedSkills |-> <<"javascript", "express", "mongodb", "postgresql">>,
     difficultyLevel |-> 3, timeToProficiency |-> 6],
    [id |-> "python", canonicalName |-> "Python",
     aliases |-> <<"Python 3", "Python">>,
     relatedSkills |-> <<"django", "flask", "fastapi", "pandas", "numpy">>,
     difficultyLevel |-> 2, timeToProficiency |-> 4],
    [id |-> "java", canonicalName |-> "Java",
     aliases |-> <<"Java 8", "Java 11", "Java">>,
     relatedSkills |-> <<"spring", "hibernate", "maven", "gradle">>,
     difficultyLevel |-> 4, timeToProficiency |-> 8],
    [id |-> "express", canonicalName |-> "Express.js",
     aliases |-> <<"Express", "ExpressJS", "Express.js">>,
     relatedSkills |-> <<"nodejs", "javascript", "mongodb", "postgresql">>,
     difficultyLevel |-> 3, timeToProficiency |-> 4],
    [id |-> "mongodb", canonicalName |-> "MongoDB",
     aliases |-> <<"Mongo", "MongoDB">>,
     relatedSkills |-> <<"nodejs", "express", "mongoose", "nosql">>,
     difficultyLevel |-> 3, timeToProficiency |-> 4],
    [id |-> "postgresql", canonicalName |-> "PostgreSQL",
     aliases |-> <<"Postgres", "PostgreSQL">>,
     relatedSkills |-> <<"sql", "nodejs", "express", "prisma">>,
     difficultyLevel |-> 3, timeToProficiency |-> 5],
    [id |-> "mysql", canonicalName |-> "MySQL",
     aliases |-> <<"MySQL", "MariaDB">>,
     relatedSkills |-> <<"sql", "php", "nodejs">>,
     difficultyLevel |-> 2, timeToProficiency |-> 3],
    [id |-> "docker", canonicalName |-> "Docker",
     aliases |-> <<"Docker", "Containerization">>,
     relatedSkills |-> <<"kubernetes", "aws", "azure", "ci-cd">>,
     difficultyLevel |-> 3, timeToProficiency |-> 4],
    [id |-> "aws", canonicalName |-> "AWS",
     aliases |-> <<"Amazon Web Services", "AWS Cloud">>,
     relatedSkills |-> <<"docker", "kubernetes", "terraform", "serverless">>,
     difficultyLevel |-> 4, timeToProficiency |-> 8],
    [id |-> "kubernetes", canonicalName |-> "Kubernetes",
     aliases |-> <<"K8s", "Kubernetes">>,
     relatedSkills |-> <<"docker", "aws", "azure", "helm">>,
     difficultyLevel |-> 4, timeToProficiency |-> 6],
    [id |-> "tensorflow", canonicalName |-> "TensorFlow",
     aliases |-> <<"TensorFlow", "TF">>,
     relatedSkills |-> <<"python", "machine-learning", "deep-learning", "keras">>,
     difficultyLevel |-> 4, timeToProficiency |-> 8],
    [id |-> "pytorch", canonicalName |-> "PyTorch",
     aliases |-> <<"PyTorch", "Torch">>,
     relatedSkills |-> <<"python", "machine-learning", "deep-learning">>,
     difficultyLevel |-> 4, timeToProficiency |-> 7],
    [id |-> "jest", canonicalName |-> "Jest",
     aliases |-> <<"Jest", "Testing">>,
     relatedSkills |-> <<"javascript", "react", "testing-library">>,
     difficultyLevel |-> 2, timeToProficiency |-> 2],
    [id |-> "cypress", canonicalName |-> "Cypress",
     aliases |-> <<"Cypress", "E2E Testing">>,
     relatedSkills |-> <<"javascript", "testing", "selenium">>,
     difficultyLevel |-> 3, timeToProficiency |-> 3]
  >>


(***************************************************************************)
(* JavaScript string primitives used by the normalizer and the AI mocks     *)
(***************************************************************************)
UpperCase ==
  <<"A", "B", "C", "D", "E", "F", "G", "H", "I", "J", "K", "L", "M",
    "N", "O", "P", "Q", "R", "S", "T", "U", "V", "W", "X", "Y", "Z">>

LowerCase ==
  <<"a", "b", "c", "d", "e", "f", "g", "h", "i", "j", "k", "l", "m",
    "n", "o", "p", "q", "r", "s", "t", "u", "v", "w", "x", "y", "z">>

LowerChar(c) ==
  IF \E i \in 1..Len(UpperCase) : UpperCase[i] = c
    THEN LowerCase[CHOOSE i \in 1..Len(UpperCase) : UpperCase[i] = c]
    ELSE c

RECURSIVE toLowerCase(_)
toLowerCase(s) ==
  IF s = "" THEN "" ELSE LowerChar(Head(s)) \o toLowerCase(Tail(s))

WhiteSpace == {" ", "\t", "\n"}

RECURSIVE trimStart(_)
trimStart(s) ==
  IF s = "" THEN ""
  ELSE IF Head(s) \in WhiteSpace THEN trimStart(Tail(s)) ELSE s

RECURSIVE trimEnd(_)
trimEnd(s) ==
  IF s = "" THEN ""
  ELSE IF SubSeq(s, Len(s), Len(s)) \in WhiteSpace
         THEN trimEnd(SubSeq(s, 1, Len(s) - 1))
         ELSE s

trim(s) == trimEnd(trimStart(s))

\* String.prototype.includes
includes(s, sub) ==
  IF sub = "" THEN TRUE
  ELSE \E i \in 1..(Len(s) - Len(sub) + 1) : SubSeq(s, i, i + Len(sub) - 1) = sub

SeqToSet(q) == {q[i] : i \in 1..Len(q)}

SetMax(S) == CHOOSE x \in S : \A y \in S : y <= x

(***************************************************************************)
(* Skill normalizer (lib/skillNormalizer.ts)                                *)
(***************************************************************************)
fuzzyMatchVariations ==
  [k \in {"js", "ts", "reactjs", "react.js", "node", "node.js", "postgres",
          "mysql", "tf", "torch", "k8s", "aws cloud", "amazon web services",
          "machine learning", "artificial intelligence", "data science",
          "web development", "mobile development", "devops",
          "cloud computing"} |->
     CASE k = "js" -> "javascript"
       [] k = "ts" -> "typescript"
       [] k = "reactjs" -> "react"
       [] k = "react.js" -> "react"
       [] k = "node" -> "nodejs"
       [] k = "node.js" -> "nodejs"
       [] k = "postgres" -> "postgresql"
       [] k = "mysql" -> "mysql"
       [] k = "tf" -> "tensorflow"
       [] k = "torch" -> "pytorch"
       [] k = "k8s" -> "kubernetes"
       [] k = "aws cloud" -> "aws"
       [] k = "amazon web services" -> "aws"
       [] k = "machine learning" -> "ml"
       [] k = "artificial intelligence" -> "ai"
       [] k = "data science" -> "datascience"
       [] k = "web development" -> "webdev"
       [] k = "mobile development" -> "mobiledev"
       [] k = "devops" -> "devops"
       [] k = "cloud computing" -> "cloud"]

\* the two Maps as initializeSkillMaps leaves them; a later set() of a key wins
lowerAliases(skill) ==
  {toLowerCase(skill.aliases[j]) : j \in 1..Len(skill.aliases)}

initializeSkillMaps(registry) ==
  [skillMap |->
     [k \in {registry[i].id : i \in 1..Len(registry)}
              \cup {toLowerCase(registry[i].canonicalName) :
                      i \in 1..Len(registry)} |->
        registry[SetMax({i \in 1..Len(registry) :
                           \/ registry[i].id = k
                           \/ toLowerCase(registry[i].canonicalName) = k})]],
   aliasMap |->
     [k \in UNION {lowerAliases(registry[i]) : i \in 1..Len(registry)} |->
        registry[SetMax({i \in 1..Len(registry) :
                           k \in lowerAliases(registry[i])})].canonicalName]]

\* the normalizer's Maps after construction
initialMaps == initializeSkillMaps(skills)

getSkillById(skillId) ==
  IF skillId \in DOMAIN skillMap THEN skillMap[skillId] ELSE Undefined

\* the partial-matching test of findFuzzyMatch for one registry entry
partialMatch(skill, name, canonicalLower) ==
  \/ includes(canonicalLower, name)
  \/ includes(name, canonicalLower)
  \/ \E alias \in lowerAliases(skill) :
       includes(alias, name) \/ includes(name, alias)

\* the first registry entry, from index i on, that matches partially
RECURSIVE firstPartialMatch(_, _, _)
firstPartialMatch(registry, i, name) ==
  IF i > Len(registry) THEN Undefined
  ELSE IF partialMatch(registry[i], name,
                       toLowerCase(registry[i].canonicalName))
    THEN registry[i]
  ELSE firstPartialMatch(registry, i + 1, name)

findFuzzyMatch(name) ==
  IF name \in DOMAIN fuzzyMatchVariations
    THEN getSkillById(fuzzyMatchVariations[name])
    ELSE firstPartialMatch(skills, 1, name)

\* normalizeSkill once the name is lower-cased and trimmed
normalizeLookup(skillName0, normalizedName) ==
  IF normalizedName \in DOMAIN skillMap
    THEN skillMap[normalizedName].canonicalName
  ELSE IF normalizedName \in DOMAIN aliasMap
    THEN (IF aliasMap[normalizedName] # "" THEN aliasMap[normalizedName]
          ELSE skillName0)
  ELSE (LET fuzzyMatch == findFuzzyMatch(normalizedName) IN
        IF fuzzyMatch # Undefined THEN fuzzyMatch.canonicalName
        ELSE skillName0)

\* normalizeSkill without the lower-casing of its argument
normalizeSkillCaseSensitive(name) == normalizeLookup(name, trim(name))

\* normalizeSkill handing back the lower-cased, trimmed name when nothing matches
normalizeSkillReturnsNormalized(name) ==
  normalizeLookup(trim(toLowerCase(name)), trim(toLowerCase(name)))

normalizeSkill(name) == normalizeLookup(name, trim(toLowerCase(name)))

areSkillsRelated(skill1Id, skill2Id) ==
  LET skill1 == getSkillById(skill1Id)
      skill2 == getSkillById(skill2Id) IN
  IF skill1 = Undefined \/ skill2 = Undefined THEN FALSE
  ELSE \/ skill2Id \in SeqToSet(skill1.relatedSkills)
       \/ skill1Id \in SeqToSet(skill2.relatedSkills)

(***************************************************************************)
(* JavaScript numbers as exact fractions.  [n, d] with d > 0 is n/d in      *)
(* lowest terms; NaN and the infinities have d = 0.                         *)
(***************************************************************************)
NaN == [n |-> 0, d |-> 0]
PosInfinity == [n |-> 1, d |-> 0]
NegInfinity == [n |-> -1, d |-> 0]

Abs(i) == IF i < 0 THEN -i ELSE i

RECURSIVE GCD(_, _)
GCD(a, b) == IF b = 0 THEN a ELSE GCD(b, a % b)

Frac(n, d) == LET g == GCD(Abs(n), d) IN [n |-> n \div g, d |-> d \div g]

Num(i) == [n |-> i, d |-> 1]

IsNaN(x) == x.d = 0 /\ x.n = 0
IsFinite(x) == x.d > 0

\* + - * are applied by the program to finite values or NaN only
Add(x, y) ==
  IF ~IsFinite(x) \/ ~IsFinite(y) THEN NaN
  ELSE Frac(x.n * y.d + y.n * x.d, x.d * y.d)

Sub(x, y) ==
  IF ~IsFinite(x) \/ ~IsFinite(y) THEN NaN
  ELSE Frac(x.n * y.d - y.n * x.d, x.d * y.d)

Mul(x, y) ==
  IF ~IsFinite(x) \/ ~IsFinite(y) THEN NaN
  ELSE Frac(x.n * y.n, x.d * y.d)

\* x / y of two finite values: 0/0 is NaN, k/0 is an infinity
Div(x, y) ==
  IF ~IsFinite(x) \/ ~IsFinite(y) THEN NaN
  ELSE IF y.n = 0
    THEN (IF x.n = 0 THEN NaN ELSE IF x.n > 0 THEN PosInfinity ELSE NegInfinity)
  ELSE IF y.n > 0 THEN Frac(x.n * y.d, x.d * y.n)
  ELSE Frac(-(x.n * y.d), x.d * (-y.n))

\* comparisons: every comparison with NaN is false
Lt(x, y) ==
  /\ ~IsNaN(x) /\ ~IsNaN(y)
  /\ IF IsFinite(x) /\ IsFinite(y) THEN x.n * y.d < y.n * x.d
     ELSE IF IsFinite(x) THEN y = PosInfinity
     ELSE IF IsFinite(y) THEN x = NegInfinity
     ELSE x = NegInfinity /\ y = PosInfinity

Gt(x, y) == Lt(y, x)
Le(x, y) == ~IsNaN(x) /\ ~IsNaN(y) /\ ~Lt(y, x)
Ge(x, y) == Le(y, x)

MathMin(x, y) == IF IsNaN(x) \/ IsNaN(y) THEN NaN ELSE IF Lt(y, x) THEN y ELSE x
MathMax(x, y) == IF IsNaN(x) \/ IsNaN(y) THEN NaN ELSE IF Lt(x, y) THEN y ELSE x

\* Math.round: nearest integer, halves rounded up
MathRound(x) ==
  IF ~IsFinite(x) THEN x ELSE Num((2 * x.n + x.d) \div (2 * x.d))

\* Math.round(x * 100) / 100
Round2(x) == Div(MathRound(Mul(x, Num(100))), Num(100))

RECURSIVE SumSeq(_)
SumSeq(q) == IF q = <<>> THEN Num(0) ELSE Add(Head(q), SumSeq(Tail(q)))

RECURSIVE SumInt(_)
SumInt(q) == IF q = <<>> THEN 0 ELSE Head(q) + SumInt(Tail(q))

RECURSIVE SelectIdx(_, _)
\* indexes of q, in order, picked by the boolean sequence keep
SelectIdx(keep, i) ==
  IF i > Len(keep) THEN <<>>
  ELSE (IF keep[i] THEN <<i>> ELSE <<>>) \o SelectIdx(keep, i + 1)

RECURSIVE Flatten(_)
Flatten(qq) == IF qq = <<>> THEN <<>> ELSE Head(qq) \o Flatten(Tail(qq))

(***************************************************************************)
(* Skill extraction from text (lib/skillNormalizer.ts)                      *)
(***************************************************************************)
minWordLength == 3

\* String.prototype.split(/\s+/): the word under construction, then the rest
RECURSIVE splitWhitespace(_, _)
splitWhitespace(s, word) ==
  IF s = "" THEN <<word>>
  ELSE IF Head(s) \in WhiteSpace
    THEN <<word>> \o splitWhitespace(trimStart(s), "")
  ELSE splitWhitespace(Tail(s), word \o Head(s))

\* the term of the first pass for one registry entry: its lower-cased
\* canonical name if the text has it, else its first alias the text has
firstPassTerm(skill, normalizedText) ==
  IF includes(normalizedText, toLowerCase(skill.canonicalName))
    THEN <<toLowerCase(skill.canonicalName)>>
  ELSE LET hits == SelectSeq(skill.aliases,
                             LAMBDA alias :
                               includes(normalizedText, toLowerCase(alias))) IN
       IF hits = <<>> THEN <<>> ELSE <<toLowerCase(Head(hits))>>

\* extractedSkills, foundSkills and matchedTerms after a match of `skill`
pushMatch(acc, skill, term) ==
  [acc EXCEPT !.skills = Append(@, skill.canonicalName),
              !.foundSkills = @ \cup {skill.id},
              !.matchedTerms = Append(@, term)]

\* first pass: exact matches, registry entries i.. in order
RECURSIVE firstPass(_, _, _)
firstPass(i, normalizedText, acc) ==
  IF i > Len(skills) THEN acc
  ELSE LET term == firstPassTerm(skills[i], normalizedText) IN
       firstPass(i + 1, normalizedText,
                 IF term # <<>> /\ skills[i].id \notin acc.foundSkills
                   THEN pushMatch(acc, skills[i], term[1])
                   ELSE acc)

\* second pass for one word, without the look at foundSkills
secondPassWordNoDedup(acc, word) ==
  IF Len(word) < minWordLength
    THEN [acc EXCEPT !.unmatchedTerms = Append(@, word)]
  ELSE LET fuzzyMatch == findFuzzyMatch(word) IN
       IF fuzzyMatch # Undefined
         THEN pushMatch(acc, fuzzyMatch, word)
         ELSE [acc EXCEPT !.unmatchedTerms = Append(@, word)]

\* second pass for one word
secondPassWord(acc, word) ==
  IF Len(word) < minWordLength
    THEN [acc EXCEPT !.unmatchedTerms = Append(@, word)]
  ELSE LET fuzzyMatch == findFuzzyMatch(word) IN
       IF fuzzyMatch # Undefined /\ fuzzyMatch.id \notin acc.foundSkills
         THEN pushMatch(acc, fuzzyMatch, word)
         ELSE [acc EXCEPT !.unmatchedTerms = Append(@, word)]

\* second pass: fuzzy matching of the words k.. in order
RECURSIVE secondPass(_, _, _)
secondPass(words, k, acc) ==
  IF k > Len(words) THEN acc
  ELSE secondPass(words, k + 1, secondPassWord(acc, words[k]))

\* matchedTerms.length / (matchedTerms.length + unmatchedTerms.length)
extractionConfidence(matched, unmatched) ==
  IF matched > 0 THEN MathMin(Num(1), Frac(matched, matched + unmatched))
  ELSE Num(0)

extractSkillsFromText(txt) ==
  LET normalizedText == toLowerCase(txt)
      acc == secondPass(splitWhitespace(normalizedText, ""), 1,
                        firstPass(1, normalizedText,
                                  [skills |-> <<>>, foundSkills |-> {},
                                   matchedTerms |-> <<>>,
                                   unmatchedTerms |-> <<>>])) IN
  [skills |-> acc.skills,
   confidence |-> extractionConfidence(Len(acc.matchedTerms),
                                       Len(acc.unmatchedTerms)),
   matchedTerms |-> acc.matchedTerms,
   unmatchedTerms |-> acc.unmatchedTerms]

(***************************************************************************)
(* Scoring engine (lib/scoringEngine.ts)                                    *)
(***************************************************************************)
weights ==
  [skillMatch |-> Frac(4, 10), experience |-> Frac(3, 10),
   transferableSkills |-> Frac(2, 10), potential |-> Frac(1, 10)]

maxRelatedSkillsBonus == Frac(3, 10)

experienceNormalizationMonths == 24

\* config.degreeLevels in Object.entries order
degreeLevels ==
  << <<"phd", Num(3)>>, <<"doctorate", Num(3)>>, <<"master", Num(2)>>,
     <<"bachelor", Num(1)>>, <<"associate", Frac(1, 2)>>,
     <<"diploma", Frac(1, 2)>>, <<"certificate", Frac(1, 4)>> >>

\* the year the recent-education checks subtract from
educationReferenceYear == 2024

requirementWeight(requirement) == IF requirement.isRequired THEN 2 ELSE 1

totalWeightOf(requirements) ==
  SumInt([i \in 1..Len(requirements) |-> requirementWeight(requirements[i])])

weightedAverageUnguarded(totalScore, totalWeight) ==
  Div(totalScore, Num(totalWeight))

\* totalWeight > 0 ? totalScore / totalWeight : 0
weightedAverage(totalScore, totalWeight) ==
  IF totalWeight > 0 THEN Div(totalScore, Num(totalWeight)) ELSE Num(0)

\* candidate.skills.find(...): <<skill>> when found, <<>> for undefined
findCandidateSkill(skillId, cand) ==
  IF \E i \in 1..Len(cand.skills) : cand.skills[i] = skillId
    THEN <<skillId>> ELSE <<>>

\* truthiness of the string-or-undefined returned by findCandidateSkill
candidateHolds(skillId, cand) ==
  LET candidateSkill == findCandidateSkill(skillId, cand) IN
  candidateSkill # <<>> /\ candidateSkill[1] # ""

findRelevantExperience(skillId, cand) ==
  IF \E i \in 1..Len(cand.experience) : cand.experience[i].skillId = skillId
    THEN cand.experience[CHOOSE i \in 1..Len(cand.experience) :
           /\ cand.experience[i].skillId = skillId
           /\ \A h \in 1..(i - 1) : cand.experience[h].skillId # skillId]
    ELSE Undefined

\* findTransferableSkills reading the required skill's relatedSkills only
findTransferableSkillsOneWay(skillId, cand) ==
  IF getSkillById(skillId) = Undefined THEN <<>>
  ELSE SelectSeq(cand.experience,
         LAMBDA exp : /\ getSkillById(exp.skillId) # Undefined
                      /\ exp.skillId
                           \in SeqToSet(getSkillById(skillId).relatedSkills))

findTransferableSkills(skillId, cand) ==
  IF getSkillById(skillId) = Undefined THEN <<>>
  ELSE SelectSeq(cand.experience,
         LAMBDA exp : /\ getSkillById(exp.skillId) # Undefined
                      /\ areSkillsRelated(skillId, exp.skillId))

calculateRelatedSkillsBonus(requiredSkillId, cand) ==
  LET relatedSkills == findTransferableSkills(requiredSkillId, cand) IN
  IF Len(relatedSkills) = 0 THEN Num(0)
  ELSE LET avgExperience ==
             Div(Num(SumInt([i \in 1..Len(relatedSkills) |->
                               relatedSkills[i].duration])),
                 Num(Len(relatedSkills)))
       IN MathMin(Div(avgExperience, Num(experienceNormalizationMonths)), Num(1))

calculateLevelAlignment(candidateLevel, requiredLevel) ==
  LET levelDiff == Abs(candidateLevel - requiredLevel) IN
  MathMax(Num(0), Sub(Num(1), Frac(levelDiff, 5)))

\* what one requirement adds to totalScore in calculateSkillMatchScore
skillMatchAward(requirement, cand) ==
  LET weight == Num(requirementWeight(requirement))
      relatedBonus == calculateRelatedSkillsBonus(requirement.skillId, cand) IN
  IF candidateHolds(requirement.skillId, cand)
    THEN Add(Mul(weight, Num(1)),
             Mul(Mul(weight, relatedBonus), maxRelatedSkillsBonus))
    ELSE Mul(Mul(weight, relatedBonus), Frac(1, 2))

\* the skill ids of a list of requirements
skillIdsOf(requirements) ==
  [i \in 1..Len(requirements) |-> requirements[i].skillId]

\* calculateSkillMatchScore listing as related every requirement with a
\* positive related-skills bonus, held directly or not
calculateSkillMatchScoreRelatedAlways(requirements, cand) ==
  LET totalWeight == totalWeightOf(requirements)
      totalScore ==
        SumSeq([i \in 1..Len(requirements) |->
                  skillMatchAward(requirements[i], cand)])
      direct(r) == candidateHolds(r.skillId, cand)
      related(r) == Gt(calculateRelatedSkillsBonus(r.skillId, cand), Num(0))
      missing(r) ==
        /\ ~candidateHolds(r.skillId, cand)
        /\ ~Gt(calculateRelatedSkillsBonus(r.skillId, cand), Num(0))
  IN [score |-> weightedAverage(totalScore, totalWeight),
      directMatches |-> skillIdsOf(SelectSeq(requirements, direct)),
      relatedMatches |-> skillIdsOf(SelectSeq(requirements, related)),
      missingSkills |-> skillIdsOf(SelectSeq(requirements, missing))]

calculateSkillMatchScore(requirements, cand) ==
  LET totalWeight == totalWeightOf(requirements)
      totalScore ==
        SumSeq([i \in 1..Len(requirements) |->
                  skillMatchAward(requirements[i], cand)])
      direct(r) == candidateHolds(r.skillId, cand)
      related(r) ==
        /\ ~candidateHolds(r.skillId, cand)
        /\ Gt(calculateRelatedSkillsBonus(r.skillId, cand), Num(0))
      missing(r) ==
        /\ ~candidateHolds(r.skillId, cand)
        /\ ~Gt(calculateRelatedSkillsBonus(r.skillId, cand), Num(0))
  IN [score |-> weightedAverage(totalScore, totalWeight),
      directMatches |-> skillIdsOf(SelectSeq(requirements, direct)),
      relatedMatches |-> skillIdsOf(SelectSeq(requirements, related)),
      missingSkills |-> skillIdsOf(SelectSeq(requirements, missing))]

hasLeadership(cand) ==
  \E i \in 1..Len(cand.experience) : cand.experience[i].hasLeadershipRole

isRecentEducation(edu) == educationReferenceYear - edu.graduationYear <= 5

hasRecentEducation(cand) ==
  \E i \in 1..Len(cand.education) : isRecentEducation(cand.education[i])

calculateLearningIndicators(cand) ==
  LET indicators ==
        (IF Len(cand.skills) > 5 THEN 1 ELSE 0)
        + (IF hasRecentEducation(cand) THEN 1 ELSE 0)
        + (IF hasLeadership(cand) THEN 1 ELSE 0)
      total == 3
  IN IF total > 0 THEN Frac(indicators, total) ELSE Num(0)

calculateLearnability(skillId, cand) ==
  LET skill == getSkillById(skillId) IN
  IF skill = Undefined THEN Frac(1, 2)
  ELSE LET baseLearnability == Sub(Num(1), Frac(skill.difficultyLevel, 5))
           learningIndicators == calculateLearningIndicators(cand)
       IN MathMin(Num(1),
                  Add(baseLearnability, Mul(learningIndicators, Frac(3, 10))))

\* experienceAward with the leadership factor 0 instead of 0.5 without a lead
experienceAwardNoLeadershipFloor(requirement, experience) ==
  LET durationScore ==
        MathMin(Div(Num(experience.duration), Num(requirement.minDuration)),
                Num(1))
      complexityScore == Frac(experience.complexityLevel, 5)
      leadershipScore ==
        IF experience.hasLeadershipRole THEN Num(1) ELSE Num(0)
      levelScore ==
        calculateLevelAlignment(experience.complexityLevel,
                                requirement.requiredLevel)
  IN Div(Add(Add(Add(durationScore, complexityScore), leadershipScore),
             levelScore),
         Num(4))

\* the per-requirement score of calculateExperienceScore for a found record
experienceAward(requirement, experience) ==
  LET durationScore ==
        MathMin(Div(Num(experience.duration), Num(requirement.minDuration)),
                Num(1))
      complexityScore == Frac(experience.complexityLevel, 5)
      leadershipScore ==
        IF experience.hasLeadershipRole THEN Num(1) ELSE Frac(1, 2)
      levelScore ==
        calculateLevelAlignment(experience.complexityLevel,
                                requirement.requiredLevel)
  IN Div(Add(Add(Add(durationScore, complexityScore), leadershipScore),
             levelScore),
         Num(4))

\* the ExperienceGap entries one requirement pushes: none or one
experienceGapOf(requirement, cand) ==
  LET experience == findRelevantExperience(requirement.skillId, cand) IN
  IF experience # Undefined
    THEN LET gap == IF requirement.minDuration - experience.duration > 0
                      THEN requirement.minDuration - experience.duration
                      ELSE 0
         IN IF gap > 0
              THEN << [skillId |-> requirement.skillId,
                       requiredDuration |-> requirement.minDuration,
                       candidateDuration |-> experience.duration,
                       gap |-> gap,
                       learnability |->
                         calculateLearnability(requirement.skillId, cand)] >>
              ELSE <<>>
    ELSE << [skillId |-> requirement.skillId,
             requiredDuration |-> requirement.minDuration,
             candidateDuration |-> 0,
             gap |-> requirement.minDuration,
             learnability |->
               calculateLearnability(requirement.skillId, cand)] >>

calculateExperienceScore(requirements, cand) ==
  LET totalWeight == totalWeightOf(requirements)
      found(i) == findRelevantExperience(requirements[i].skillId, cand)
      totalScore ==
        SumSeq([i \in 1..Len(requirements) |->
                  IF found(i) # Undefined
                    THEN Mul(Num(requirementWeight(requirements[i])),
                             experienceAward(requirements[i], found(i)))
                    ELSE Mul(Num(requirementWeight(requirements[i])),
                             Frac(1, 10))])
      withExperience ==
        SelectSeq(requirements,
          LAMBDA r : findRelevantExperience(r.skillId, cand) # Undefined)
  IN [score |-> weightedAverage(totalScore, totalWeight),
      relevantExperience |->
        [i \in 1..Len(withExperience) |->
           findRelevantExperience(withExperience[i].skillId, cand)],
      gaps |->
        Flatten([i \in 1..Len(requirements) |->
                   experienceGapOf(requirements[i], cand)])]

\* the score of one related experience against one requirement
transferabilityOf(skill, requirement) ==
  LET skillData == getSkillById(skill.skillId)
      requiredSkillData == getSkillById(requirement.skillId) IN
  IF skillData = Undefined \/ requiredSkillData = Undefined THEN Num(0)
  ELSE LET baseTransferability ==
             Sub(Num(1),
                 Frac(Abs(skillData.difficultyLevel
                          - requiredSkillData.difficultyLevel), 5))
           experienceFactor ==
             MathMin(Div(Num(skill.duration),
                         Num(experienceNormalizationMonths)), Num(1))
       IN Mul(baseTransferability, experienceFactor)

transferabilityScoresOf(requirement, cand) ==
  LET found == findTransferableSkills(requirement.skillId, cand) IN
  [k \in 1..Len(found) |-> transferabilityOf(found[k], requirement)]

calculateTransferableSkillsScore(requirements, cand) ==
  LET totalWeight == totalWeightOf(requirements)
      award(i) ==
        LET scores == transferabilityScoresOf(requirements[i], cand) IN
        IF Len(scores) > 0
          THEN Mul(Num(requirementWeight(requirements[i])),
                   Div(SumSeq(scores), Num(Len(scores))))
          ELSE Mul(Num(requirementWeight(requirements[i])), Num(0))
      totalScore == SumSeq([i \in 1..Len(requirements) |-> award(i)])
  IN [score |-> weightedAverage(totalScore, totalWeight),
      transferableSkills |->
        Flatten([i \in 1..Len(requirements) |->
                   findTransferableSkills(requirements[i].skillId, cand)]),
      transferabilityScores |->
        Flatten([i \in 1..Len(requirements) |->
                   transferabilityScoresOf(requirements[i], cand)])]

getDegreeLevel(degree) ==
  LET degreeLower == toLowerCase(degree)
      hit(k) == includes(degreeLower, degreeLevels[k][1]) IN
  IF \E k \in 1..Len(degreeLevels) : hit(k)
    THEN degreeLevels[CHOOSE k \in 1..Len(degreeLevels) :
                        hit(k) /\ \A h \in 1..(k - 1) : ~hit(h)][2]
    ELSE Num(0)

RECURSIVE highestDegreeFrom(_, _)
highestDegreeFrom(education, highest) ==
  IF education = <<>> THEN highest
  ELSE LET degreeLevel == getDegreeLevel(Head(education).degree) IN
       highestDegreeFrom(Tail(education),
                         IF Gt(degreeLevel, highest) THEN degreeLevel
                         ELSE highest)

calculateEducationScore(education) ==
  IF Len(education) = 0 THEN Frac(3, 10)
  ELSE MathMin(Div(highestDegreeFrom(education, Num(0)), Num(3)), Num(1))

RECURSIVE insertByDuration(_, _)
\* places exp behind every element whose duration is not larger (stable)
insertByDuration(sorted, exp) ==
  IF sorted = <<>> THEN <<exp>>
  ELSE IF Head(sorted).duration <= exp.duration
         THEN <<Head(sorted)>> \o insertByDuration(Tail(sorted), exp)
         ELSE <<exp>> \o sorted

RECURSIVE sortByDuration(_)
\* [...experience].sort((a, b) => a.duration - b.duration)
sortByDuration(experience) ==
  IF experience = <<>> THEN <<>>
  ELSE insertByDuration(
         sortByDuration(SubSeq(experience, 1, Len(experience) - 1)),
         experience[Len(experience)])

\* the candidate object after a call of calculateMatchingScore, had the
\* growth-trajectory sort worked on candidate.experience itself
afterScoringSortedInPlace(cand) ==
  [cand EXCEPT !.experience = sortByDuration(@)]

\* the candidate object after a call of calculateMatchingScore: every
\* calculator only reads it, and the one sort works on the copy
\* [...candidate.experience]
afterScoring(cand) == cand

calculateGrowthTrajectory(cand) ==
  IF Len(cand.experience) < 2 THEN Frac(1, 2)
  ELSE LET sortedExperience == sortByDuration(cand.experience)
           complexityIncrease ==
             Cardinality({i \in 2..Len(sortedExperience) :
                            sortedExperience[i].complexityLevel
                              > sortedExperience[i - 1].complexityLevel})
       IN Frac(complexityIncrease, Len(sortedExperience) - 1)

calculatePotentialScore(cand) ==
  LET educationScore == calculateEducationScore(cand.education)
      learningScore == calculateLearningIndicators(cand)
      growthScore == calculateGrowthTrajectory(cand)
  IN [score |->
        Add(Add(Mul(educationScore, Frac(3, 10)),
                Mul(learningScore, Frac(4, 10))),
            Mul(growthScore, Frac(3, 10))),
      educationScore |-> educationScore,
      learningScore |-> learningScore,
      growthScore |-> growthScore,
      indicators |->
        (IF \E i \in 1..Len(cand.education) :
               includes(toLowerCase(cand.education[i].field), "computer")
           THEN <<"Strong educational background in computer science">>
           ELSE <<>>)
        \o (IF hasLeadership(cand)
              THEN <<"Demonstrated leadership experience">> ELSE <<>>)
        \o (IF Len(cand.skills) > 5 THEN <<"Diverse skill set">> ELSE <<>>)
        \o (IF hasRecentEducation(cand) THEN <<"Recent education">> ELSE <<>>)]

generateScoreBreakdown(requirements, cand) ==
  LET skillMatchResult == calculateSkillMatchScore(requirements, cand)
      experienceResult == calculateExperienceScore(requirements, cand)
      potentialResult == calculatePotentialScore(cand)
      missingSkills == skillMatchResult.missingSkills
      experienceGaps == experienceResult.gaps
  IN [matchedSkills |-> skillMatchResult.directMatches,
      missingSkills |-> missingSkills,
      relatedSkills |-> skillMatchResult.relatedMatches,
      experienceGaps |-> experienceGaps,
      potentialIndicators |-> potentialResult.indicators,
      riskFactors |->
        \* missingSkills.length > requirements.length * 0.5
        (IF 2 * Len(missingSkills) > Len(requirements)
           THEN <<"Significant skill gaps">> ELSE <<>>)
        \o (IF \E i \in 1..Len(experienceGaps) : experienceGaps[i].gap > 12
              THEN <<"Large experience gaps in key areas">> ELSE <<>>)
        \o (IF Len(cand.experience) < 2
              THEN <<"Limited work experience">> ELSE <<>>)]

\* the weighted sum of the four unrounded scores
\* the overall score combined from sub-scores already rounded to 2 decimals
overallScoreOfRoundedParts(skillMatchScore, experienceScore, transferableSkillsScore, potentialScore) ==
  Add(Add(Add(Mul(Round2(skillMatchScore), weights.skillMatch),
              Mul(Round2(experienceScore), weights.experience)),
          Mul(Round2(transferableSkillsScore), weights.transferableSkills)),
      Mul(Round2(potentialScore), weights.potential))

overallScoreOf(skillMatchScore, experienceScore, transferableSkillsScore, potentialScore) ==
  Add(Add(Add(Mul(skillMatchScore, weights.skillMatch),
              Mul(experienceScore, weights.experience)),
          Mul(transferableSkillsScore, weights.transferableSkills)),
      Mul(potentialScore, weights.potential))

\* the MatchingScore built from the four unrounded scores and the breakdown
matchingScoreOf(skillMatchScore, experienceScore, transferableSkillsScore, potentialScore, breakdown) ==
  [overallScore |->
     Round2(overallScoreOf(skillMatchScore, experienceScore,
                           transferableSkillsScore, potentialScore)),
   skillMatchScore |-> Round2(skillMatchScore),
   experienceScore |-> Round2(experienceScore),
   transferableSkillsScore |-> Round2(transferableSkillsScore),
   potentialScore |-> Round2(potentialScore),
   breakdown |-> breakdown]

calculateMatchingScore(cand, j) ==
  matchingScoreOf(calculateSkillMatchScore(j.requirements, cand).score,
                  calculateExperienceScore(j.requirements, cand).score,
                  calculateTransferableSkillsScore(j.requirements, cand).score,
                  calculatePotentialScore(cand).score,
                  generateScoreBreakdown(j.requirements, cand))

(***************************************************************************)
(* Data store read by the match orchestrator                                *)
(***************************************************************************)
\* a requirement of a stored job
Requirement(skillId, minDuration) ==
  [skillId |-> skillId, minDuration |-> minDuration, requiredLevel |-> 3,
   isRequired |-> TRUE]

RequirementsOf(skillIds, minDuration) ==
  [i \in 1..Len(skillIds) |-> Requirement(skillIds[i], minDuration)]

\* job-1 misses one skill the stored developer can transfer to, job-2 is
\* fully covered by that developer, job-3 asks for ten skills nobody holds
sampleJobs ==
  << [id |-> "job-1", title |-> "ML Engineer", company |-> "Acme",
      requirements |-> RequirementsOf(<<"tensorflow", "python">>, 12)],
     [id |-> "job-2", title |-> "Backend Developer",
      company |-> "Fast-paced startup",
      requirements |-> RequirementsOf(<<"python">>, 12)],
     [id |-> "job-3", title |-> "Platform Engineer", company |-> "Globex",
      requirements |->
        RequirementsOf(<<"react", "vue", "angular", "java", "express",
                         "mongodb", "postgresql", "mysql", "kubernetes",
                         "cypress">>, 24)] >>

sampleCandidates ==
  << [id |-> "candidate-1", name |-> "Pat",
      summary |-> "Engineer who leads a team",
      skills |-> <<"python">>,
      experience |->
        << [skillId |-> "python", duration |-> 36, complexityLevel |-> 4,
            hasLeadershipRole |-> TRUE,
            projectDescription |-> "Python API with 100k users"] >>,
      education |-> << [degree |-> "Master of Science",
                        field |-> "Computer Science",
                        graduationYear |-> 2021] >>],
     [id |-> "candidate-2", name |-> "Sam", summary |-> "Career changer",
      skills |-> <<>>, experience |-> <<>>, education |-> <<>>],
     [id |-> "candidate-3", name |-> "Lee", summary |-> "Python developer",
      skills |-> <<"python">>,
      experience |->
        << [skillId |-> "python", duration |-> 36, complexityLevel |-> 3,
            hasLeadershipRole |-> FALSE, projectDescription |-> ""],
           [skillId |-> "python", duration |-> 6, complexityLevel |-> 1,
            hasLeadershipRole |-> FALSE, projectDescription |-> ""] >>,
      education |-> <<>>],
     [id |-> "candidate-4", name |-> "Kim", summary |-> "Web developer",
      skills |-> <<"javascript">>,
      experience |->
        << [skillId |-> "javascript", duration |-> 48, complexityLevel |-> 3,
            hasLeadershipRole |-> FALSE,
            projectDescription |-> "Web shop front end"],
           [skillId |-> "nodejs", duration |-> 24, complexityLevel |-> 3,
            hasLeadershipRole |-> FALSE, projectDescription |-> ""],
           [skillId |-> "jest", duration |-> 12, complexityLevel |-> 2,
            hasLeadershipRole |-> FALSE, projectDescription |-> ""],
           [skillId |-> "docker", duration |-> 6, complexityLevel |-> 2,
            hasLeadershipRole |-> FALSE, projectDescription |-> ""] >>,
      education |-> <<>>] >>

\* the year in which the operations are called
CallYear == 2026

\* the store as the modules of the data layer leave it at start-up
StoreLoaded ==
  /\ jobs = sampleJobs
  /\ candidates = sampleCandidates

\* Array.prototype.find: the first element with the id, or undefined
RECURSIVE findById(_, _)
findById(store, id) ==
  IF store = <<>> THEN Undefined
  ELSE IF Head(store).id = id THEN Head(store)
  ELSE findById(Tail(store), id)

findJobById(id) == findById(jobs, id)

\* a lookup that hands back the first candidate when the id is unknown
findCandidateByIdOrFirst(id) ==
  IF findById(candidates, id) = Undefined THEN candidates[1]
  ELSE findById(candidates, id)

findCandidateById(id) == findById(candidates, id)

getAllJobs == jobs

getAllCandidates == candidates

(***************************************************************************)
(* Inputs of the scoring engine: jobs and candidates of the data model      *)
(***************************************************************************)
MaxReqs == 2
MaxExps == 2

SeqsUpTo(S, n) == UNION {[1..k -> S] : k \in 0..n}

\* python is related to tensorflow and pytorch (difficulty 2 against 4),
\* docker to none of them, cobol is not a registered skill
ScoreReqSkillIds == {"python", "docker", "cobol"}
ScoreExpSkillIds == {"python", "tensorflow", "pytorch"}

ScoreRequirements ==
  {[skillId |-> s, minDuration |-> p[1], requiredLevel |-> p[2],
    isRequired |-> p[3]] :
     s \in ScoreReqSkillIds,
     p \in {<<24, 3, TRUE>>, <<0, 5, FALSE>>, <<12, 1, TRUE>>}}

ScoreExperiences ==
  {[skillId |-> s, duration |-> p[1], complexityLevel |-> p[2],
    hasLeadershipRole |-> p[3], projectDescription |-> ""] :
     s \in ScoreExpSkillIds,
     p \in {<<0, 1, FALSE>>, <<1, 3, FALSE>>, <<36, 1, FALSE>>,
            <<36, 5, TRUE>>}}

ScoreJobs ==
  {[id |-> "job-x", title |-> "Engineer", company |-> "Acme",
    requirements |-> r] : r \in SeqsUpTo(ScoreRequirements, MaxReqs)}

\* skills, education and summary of the candidates handed to the engine
ScoreCandidateBases ==
  { [skills |-> <<>>, education |-> <<>>],
    [skills |-> <<"python">>,
     education |-> << [degree |-> "Bachelor of Science",
                       field |-> "Computer Science",
                       graduationYear |-> 2020] >>],
    [skills |-> <<"python", "docker", "cobol", "react", "jest", "aws">>,
     education |-> << [degree |-> "PhD", field |-> "Physics",
                       graduationYear |-> 2010] >>] }

ScoreCandidates ==
  {[id |-> "candidate-x", name |-> "Pat", summary |-> "Developer",
    skills |-> b.skills, education |-> b.education, experience |-> e] :
     b \in ScoreCandidateBases,
     e \in SeqsUpTo(ScoreExperiences, MaxExps)}

NoRequest == [jobId |-> "", candidateId |-> ""]

EmptyAnalysis ==
  [skillTransferability |-> <<>>, culturalFit |-> Undefined,
   learningPotential |-> <<>>, experienceValidation |-> <<>>]

(***************************************************************************)
(* Specification of the scoring engine alone: one call of                   *)
(* calculateMatchingScore on an arbitrary job and candidate                 *)
(***************************************************************************)
InitScore ==
  /\ skillMap = initialMaps.skillMap
  /\ aliasMap = initialMaps.aliasMap
  /\ QueryIdle
  /\ StoreLoaded
  /\ currentYear = CallYear
  /\ CallIdle
  /\ RateIdle
  /\ OptimizerIdle
  /\ pc = "engine"
  /\ job \in ScoreJobs
  /\ candidate \in ScoreCandidates
  /\ score = Undefined
  /\ request = NoRequest
  /\ aiAnalysis = EmptyAnalysis
  /\ aiQueue = <<>>
  /\ aiLog = <<>>
  /\ attempt = 0
  /\ isMockMode = TRUE
  /\ outcome = Undefined
  /\ skillName = ""
  /\ normalized = ""

EngineCalculate ==
  /\ pc = "engine"
  /\ score' = calculateMatchingScore(candidate, job)
  /\ candidate' = afterScoring(candidate)
  /\ pc' = "scored"
  /\ UNCHANGED <<job, request, aiAnalysis, aiQueue, aiLog, attempt,
                 isMockMode, outcome, skillName, normalized, skillMap,
                 aliasMap, queryVars, storeVars, callVars,
                 rateVars, optVars>>

NextScore == EngineCalculate

SpecScore == InitScore /\ [][NextScore]_vars

(***************************************************************************)
(* AI collaborator (lib/aiService.ts)                                       *)
(***************************************************************************)
MAX_RETRIES == 3

\* value of the score field in a parsed AI reply: missing, a number, or a
\* JSON string that is not a number
FieldAbsent == [type |-> "absent"]
FieldNumber(x) == [type |-> "number", value |-> x]
FieldText == [type |-> "string"]

\* parsed.field || fallback: a missing field and the number 0 are falsy
OrDefault(field, fallback) ==
  IF field.type = "absent" THEN fallback
  ELSE IF field.type = "number" /\ field.value = Num(0) THEN fallback
  ELSE IF field.type = "number" THEN field.value
  ELSE NaN  \* Math.max / Math.min convert a non-numeric string to NaN

\* Math.min(1, Math.max(0, parsed.field || fallback))
clampUnit(field, fallback) ==
  MathMin(Num(1), MathMax(Num(0), OrDefault(field, fallback)))

calculateSkillSimilarity(skill1, skill2) ==
  LET skill1Lower == toLowerCase(skill1)
      skill2Lower == toLowerCase(skill2)
      both(a, b) == /\ includes(skill1Lower, a) \/ includes(skill1Lower, b)
                    /\ includes(skill2Lower, a) \/ includes(skill2Lower, b)
  IN IF /\ includes(skill1Lower, "javascript") \/ includes(skill1Lower, "js")
        /\ includes(skill2Lower, "typescript") \/ includes(skill2Lower, "ts")
       THEN Frac(9, 10)
     ELSE IF both("react", "vue") THEN Frac(8, 10)
     ELSE IF both("python", "java") THEN Frac(7, 10)
     ELSE IF both("docker", "kubernetes") THEN Frac(8, 10)
     ELSE Frac(5, 10)

getMockSkillTransferability(sourceSkill, targetSkill, candidateExperience) ==
  LET skillSimilarity == calculateSkillSimilarity(sourceSkill, targetSkill)
      hasRelevantExperience ==
        includes(toLowerCase(candidateExperience), toLowerCase(sourceSkill))
  IN [transferabilityScore |->
        MathMin(Frac(9, 10),
                Add(Mul(skillSimilarity, Frac(8, 10)),
                    IF hasRelevantExperience THEN Frac(1, 10) ELSE Num(0)))]

getMockCulturalFit(candidateExperience, companyCulture) ==
  LET text == toLowerCase(candidateExperience)
      mentionsLeadership == includes(text, "lead") \/ includes(text, "manage")
      hasTeamwork == includes(text, "team") \/ includes(text, "collaborate")
      isStartup == \/ includes(toLowerCase(companyCulture), "startup")
                   \/ includes(toLowerCase(companyCulture), "fast-paced")
      culturalFitScore ==
        IF mentionsLeadership /\ hasTeamwork THEN Frac(8, 10) ELSE Frac(6, 10)
  IN [culturalFitScore |->
        IF isStartup THEN Mul(culturalFitScore, Frac(9, 10))
        ELSE culturalFitScore]

getSkillDifficulty(name) ==
  LET key == toLowerCase(name) IN
  IF key \in {"javascript", "python"} THEN 2
  ELSE IF key \in {"react", "nodejs", "docker", "postgresql"} THEN 3
  ELSE IF key \in {"java", "kubernetes", "aws", "tensorflow"} THEN 4
  ELSE 3

assessBackgroundStrength(background) ==
  IF \E keyword \in {"developer", "engineer", "programming", "coding",
                     "software"} : includes(toLowerCase(background), keyword)
    THEN Frac(8, 10) ELSE Frac(4, 10)

getMockLearningAssessment(missingSkill, candidateBackground) ==
  LET skillDifficulty == Num(getSkillDifficulty(missingSkill))
      backgroundStrength == assessBackgroundStrength(candidateBackground)
  IN [learnability |->
        MathMax(Frac(3, 10),
                Add(Sub(Num(1), Mul(skillDifficulty, Frac(2, 10))),
                    Mul(backgroundStrength, Frac(3, 10)))),
      timeToProficiency |->
        MathMax(Num(3), Sub(Mul(skillDifficulty, Num(2)),
                            Mul(backgroundStrength, Num(2))))]

getMockExperienceValidation(experienceDescription) ==
  LET hasMetrics == \/ includes(experienceDescription, "users")
                    \/ includes(experienceDescription, "performance")
                    \/ includes(experienceDescription, "scale")
  IN [confidence |-> IF hasMetrics THEN Frac(9, 10) ELSE Frac(7, 10)]

\* what a method hands back when it is in mock mode, when makeOpenAICall
\* reports failure, and when the reply is not valid JSON
mockResult(call) ==
  CASE call.method = "analyzeSkillTransferability" ->
         getMockSkillTransferability(call.source, call.skill, call.text)
    [] call.method = "assessCulturalFit" ->
         getMockCulturalFit(call.text, call.company)
    [] call.method = "assessLearningPotential" ->
         getMockLearningAssessment(call.skill, call.text)
    [] call.method = "validateExperience" ->
         getMockExperienceValidation(call.text)

\* what a method builds from a parsed reply whose numeric fields hold `field`
parsedResult(call, field) ==
  CASE call.method = "analyzeSkillTransferability" ->
         [transferabilityScore |-> clampUnit(field, Frac(5, 10))]
    [] call.method = "assessCulturalFit" ->
         [culturalFitScore |-> clampUnit(field, Frac(7, 10))]
    [] call.method = "assessLearningPotential" ->
         [learnability |-> clampUnit(field, Frac(5, 10)),
          timeToProficiency |-> MathMax(Num(1), OrDefault(field, Num(6)))]
    [] call.method = "validateExperience" ->
         [confidence |-> clampUnit(field, Frac(7, 10))]

(***************************************************************************)
(* Match orchestrator (lib/matchingService.ts)                              *)
(***************************************************************************)
maxAnalysisSkills == 3
maxAnalysisLearning == 2
maxAnalysisExperiences == 3
confidenceBoostFactor == Frac(1, 10)
culturalFitWeight == Frac(5, 100)
transferabilityWeight == Frac(1, 10)

\* Array.prototype.slice(0, n)
sliceTo(q, n) == SubSeq(q, 1, IF Len(q) < n THEN Len(q) ELSE n)

Call(method, source, skill, text, company) ==
  [method |-> method, source |-> source, skill |-> skill, text |-> text,
   company |-> company]

\* description || `${skillId} experience`
describedOr(description, skillId) ==
  IF description = "" THEN skillId \o " experience" ELSE description

\* requirements whose skill the candidate does not list
missingSkillsOf(cand, j) ==
  LET missing(req) == req.skillId \notin SeqToSet(cand.skills)
  IN SelectSeq(j.requirements, missing)

\* the transferability call issued for one missing skill, if any
transferabilityCallsFor(cand, missingSkill) ==
  LET related(skillId) == areSkillsRelated(skillId, missingSkill.skillId)
      relatedSkills == SelectSeq(cand.skills, related)
      held(exp) == exp.skillId = relatedSkills[1]
  IN IF Len(relatedSkills) = 0 THEN <<>>
     ELSE IF SelectSeq(cand.experience, held) = <<>> THEN <<>>
     ELSE LET candidateExp == Head(SelectSeq(cand.experience, held))
          IN << Call("analyzeSkillTransferability", relatedSkills[1],
                     missingSkill.skillId,
                     describedOr(candidateExp.projectDescription,
                                 relatedSkills[1]), "") >>

\* performEnhancedAIAnalysis validating every experience record
analysisCallsAllExperiences(cand, j) ==
  LET missingSkills == missingSkillsOf(cand, j)
      forTransfer == sliceTo(missingSkills, maxAnalysisSkills)
      forLearning == sliceTo(missingSkills, maxAnalysisLearning)
      forValidation == cand.experience
  IN Flatten([i \in 1..Len(forTransfer) |->
                transferabilityCallsFor(cand, forTransfer[i])])
     \o << Call("assessCulturalFit", "", "", cand.summary, j.company) >>
     \o [i \in 1..Len(forLearning) |->
           Call("assessLearningPotential", "", forLearning[i].skillId,
                cand.summary, "")]
     \o [i \in 1..Len(forValidation) |->
           Call("validateExperience", "", forValidation[i].skillId,
                describedOr(forValidation[i].projectDescription,
                            forValidation[i].skillId), "")]

\* the collaborator calls performEnhancedAIAnalysis issues, in order, when
\* none of them throws
analysisCalls(cand, j) ==
  LET missingSkills == missingSkillsOf(cand, j)
      forTransfer == sliceTo(missingSkills, maxAnalysisSkills)
      forLearning == sliceTo(missingSkills, maxAnalysisLearning)
      forValidation == sliceTo(cand.experience, maxAnalysisExperiences)
  IN Flatten([i \in 1..Len(forTransfer) |->
                transferabilityCallsFor(cand, forTransfer[i])])
     \o << Call("assessCulturalFit", "", "", cand.summary, j.company) >>
     \o [i \in 1..Len(forLearning) |->
           Call("assessLearningPotential", "", forLearning[i].skillId,
                cand.summary, "")]
     \o [i \in 1..Len(forValidation) |->
           Call("validateExperience", "", forValidation[i].skillId,
                describedOr(forValidation[i].projectDescription,
                            forValidation[i].skillId), "")]

\* the analysis after a call has handed back its result
recordResult(analysis, call, result) ==
  CASE call.method = "analyzeSkillTransferability" ->
         [analysis EXCEPT !.skillTransferability =
            Append(@, [sourceSkill |-> call.source, targetSkill |-> call.skill,
                       transferabilityScore |-> result.transferabilityScore])]
    [] call.method = "assessCulturalFit" ->
         [analysis EXCEPT !.culturalFit = result]
    [] call.method = "assessLearningPotential" ->
         [analysis EXCEPT !.learningPotential =
            Append(@, [skill |-> call.skill,
                       learnability |-> result.learnability,
                       timeToProficiency |-> result.timeToProficiency])]
    [] call.method = "validateExperience" ->
         [analysis EXCEPT !.experienceValidation =
            Append(@, [skill |-> call.skill,
                       confidence |-> result.confidence])]

\* the sentences of the explanation, one tag per sentence template
generateExplanation(matchingScore) ==
  LET breakdown == matchingScore.breakdown
      gaps == breakdown.experienceGaps
  IN <<"match_summary">>
     \o (IF Len(breakdown.matchedSkills) > 0
           THEN <<"direct_experience">> ELSE <<>>)
     \o (IF Len(breakdown.relatedSkills) > 0
           THEN <<"related_experience">> ELSE <<>>)
     \o (IF Len(gaps) = 0 THEN <<"experience_aligned">>
         ELSE (IF \E i \in 1..Len(gaps) : gaps[i].gap <= 6
                 THEN <<"minor_gaps">> ELSE <<>>)
              \o (IF \E i \in 1..Len(gaps) : gaps[i].gap > 6
                    THEN <<"significant_gaps">> ELSE <<>>))
     \o (IF Len(breakdown.potentialIndicators) > 0
           THEN <<"potential_indicators">> ELSE <<>>)
     \o (IF Len(breakdown.riskFactors) > 0 THEN <<"risk_factors">> ELSE <<>>)

generateRecommendations(cand, matchingScore) ==
  LET breakdown == matchingScore.breakdown
      gaps == breakdown.experienceGaps
  IN (IF Len(breakdown.missingSkills) > 0
        THEN <<"gain_missing_skills">> ELSE <<>>)
     \o (IF \E i \in 1..Len(gaps) : gaps[i].gap > 6
           THEN <<"build_deeper_experience">> ELSE <<>>)
     \o (IF Lt(matchingScore.overallScore, Frac(7, 10))
           THEN <<"training_or_certification">> ELSE <<>>)
     \o (IF ~hasLeadership(cand) THEN <<"demonstrate_leadership">> ELSE <<>>)
     \o (IF ~hasRecentEducation(cand)
           THEN <<"additional_education">> ELSE <<>>)

\* calculateConfidence handing back its sum without the clamp
calculateConfidenceUnclamped(matchingScore) ==
  LET breakdown == matchingScore.breakdown
      gaps == breakdown.experienceGaps
      largeGaps == Cardinality({i \in 1..Len(gaps) : gaps[i].gap > 12})
  IN Sub(Sub(Add(Add(Add(Frac(8, 10),
                         IF Len(breakdown.matchedSkills) > 0
                           THEN Frac(1, 10) ELSE Num(0)),
                     IF Len(breakdown.missingSkills) = 0
                       THEN Frac(5, 100) ELSE Num(0)),
                 IF Len(gaps) = 0 THEN Frac(5, 100) ELSE Num(0)),
             Mul(Num(largeGaps), Frac(5, 100))),
         IF Len(breakdown.missingSkills) > Len(breakdown.matchedSkills)
           THEN Frac(1, 10) ELSE Num(0))

calculateConfidence(matchingScore) ==
  LET breakdown == matchingScore.breakdown
      gaps == breakdown.experienceGaps
      largeGaps == Cardinality({i \in 1..Len(gaps) : gaps[i].gap > 12})
      confidence ==
        Sub(Sub(Add(Add(Add(Frac(8, 10),
                            IF Len(breakdown.matchedSkills) > 0
                              THEN Frac(1, 10) ELSE Num(0)),
                        IF Len(breakdown.missingSkills) = 0
                          THEN Frac(5, 100) ELSE Num(0)),
                    IF Len(gaps) = 0 THEN Frac(5, 100) ELSE Num(0)),
                Mul(Num(largeGaps), Frac(5, 100))),
            IF Len(breakdown.missingSkills) > Len(breakdown.matchedSkills)
              THEN Frac(1, 10) ELSE Num(0))
  IN MathMax(Frac(3, 10), MathMin(Num(1), confidence))

generateEnhancedExplanation(matchingScore, analysis) ==
  generateExplanation(matchingScore)
  \o (IF Len(analysis.skillTransferability) > 0
        THEN <<"ai_transferability">> ELSE <<>>)
  \o (IF analysis.culturalFit # Undefined THEN <<"ai_cultural_fit">> ELSE <<>>)
  \o (IF Len(analysis.learningPotential) > 0
        THEN <<"ai_learning_time">> ELSE <<>>)

generateEnhancedRecommendations(cand, matchingScore, analysis) ==
  sliceTo(generateRecommendations(cand, matchingScore)
          \o (IF Len(analysis.skillTransferability) > 0
                THEN <<"ai_leverage_transfer">> ELSE <<>>)
          \o (IF Len(analysis.learningPotential) > 0
                THEN <<"ai_focus_first">> ELSE <<>>)
          \o (IF analysis.culturalFit # Undefined
                THEN <<"ai_cultural_1", "ai_cultural_2">> ELSE <<>>),
          5)

\* the mean of one numeric field over the entries of an analysis list
averageOf(scores) == Div(SumSeq(scores), Num(Len(scores)))

\* calculateEnhancedConfidence that adds nothing for the AI analysis
calculateEnhancedConfidenceBreakdownOnly(matchingScore, analysis) ==
  MathMin(Num(1), MathMax(Frac(3, 10), calculateConfidence(matchingScore)))

calculateEnhancedConfidence(matchingScore, analysis) ==
  LET transfers == analysis.skillTransferability
      validations == analysis.experienceValidation
      base == calculateConfidence(matchingScore)
      withTransfer ==
        IF Len(transfers) > 0
          THEN Add(base,
                   Mul(averageOf([i \in 1..Len(transfers) |->
                                    transfers[i].transferabilityScore]),
                       transferabilityWeight))
          ELSE base
      withCulture ==
        IF analysis.culturalFit # Undefined
          THEN Add(withTransfer,
                   Mul(analysis.culturalFit.culturalFitScore,
                       culturalFitWeight))
          ELSE withTransfer
      withValidation ==
        IF Len(validations) > 0
          THEN Add(withCulture,
                   Mul(averageOf([i \in 1..Len(validations) |->
                                    validations[i].confidence]),
                       confidenceBoostFactor))
          ELSE withCulture
  IN MathMin(Num(1), MathMax(Frac(3, 10), withValidation))

\* the MatchingResponse match returns
matchingResponse(cand, j, matchingScore, analysis) ==
  [kind |-> "response",
   result |-> [candidate |-> cand, job |-> j, score |-> matchingScore,
               explanation |->
                 generateEnhancedExplanation(matchingScore, analysis),
               recommendations |->
                 generateEnhancedRecommendations(cand, matchingScore,
                                                 analysis)],
   confidence |-> calculateEnhancedConfidence(matchingScore, analysis)]

\* the error match raises: every failure is wrapped with the same prefix
matchingFailure(message) ==
  [kind |-> "error", message |-> "Matching failed: " \o message]

\* one entry of a ranking: the engine's score with the explanation and the
\* recommendations drawn from it, no AI analysis
rankingEntry(cand, j, matchingScore) ==
  [candidate |-> cand, job |-> j, score |-> matchingScore,
   explanation |-> generateExplanation(matchingScore),
   recommendations |-> generateRecommendations(cand, matchingScore)]

\* the comparator (a, b) => b.score.overallScore - a.score.overallScore
\* puts a before b; a NaN difference counts as 0
ordersBefore(a, b) ==
  Lt(Sub(b.score.overallScore, a.score.overallScore), Num(0))

RECURSIVE insertByOverallScore(_, _)
\* places entry behind every element the comparator does not put behind it
insertByOverallScore(sorted, entry) ==
  IF sorted = <<>> THEN <<entry>>
  ELSE IF ordersBefore(entry, Head(sorted))
         THEN <<entry>> \o sorted
         ELSE <<Head(sorted)>> \o insertByOverallScore(Tail(sorted), entry)

RECURSIVE sortByOverallScore(_)
\* results.sort((a, b) => b.score.overallScore - a.score.overallScore)
sortByOverallScore(results) ==
  IF results = <<>> THEN <<>>
  ELSE insertByOverallScore(
         sortByOverallScore(SubSeq(results, 1, Len(results) - 1)),
         results[Len(results)])

\* a ranking that hands the results back in the order of the store
matchCandidateAgainstAllJobsUnsorted(cand) ==
  [i \in 1..Len(getAllJobs) |->
     rankingEntry(cand, getAllJobs[i],
                  calculateMatchingScore(cand, getAllJobs[i]))]

\* matchCandidateAgainstAllJobs once the candidate is found
matchCandidateAgainstAllJobs(cand) ==
  sortByOverallScore(
    [i \in 1..Len(getAllJobs) |->
       rankingEntry(cand, getAllJobs[i],
                    calculateMatchingScore(cand, getAllJobs[i]))])

\* findCandidatesForJob once the job is found
findCandidatesForJob(j, max) ==
  sliceTo(sortByOverallScore(
            [i \in 1..Len(getAllCandidates) |->
               rankingEntry(getAllCandidates[i], j,
                            calculateMatchingScore(getAllCandidates[i], j))]),
          max)

\* the store after calculateMatchingScore ran on the candidates with the ids
storeAfterScoring(store, ids) ==
  [i \in 1..Len(store) |->
     IF store[i].id \in ids THEN afterScoring(store[i]) ELSE store[i]]

\* the reply of GET /api/matching
rankingReply(results) ==
  [kind |-> "ranking", status |-> 200, results |-> results,
   count |-> Len(results)]

errorReply(status, code) == [kind |-> "error", status |-> status, code |-> code]

(***************************************************************************)
(* Specification of match: one request against the data store, the AI       *)
(* collaborator answering each call in any of the ways it can               *)
(***************************************************************************)
RequestJobIds == {"job-1", "job-2", "job-3", "job-404"}
RequestCandidateIds == {"candidate-1", "candidate-2", "candidate-404"}

\* score fields a parsed reply can carry: none, in range, above range, text
AIReplyFields ==
  {FieldAbsent, FieldNumber(Frac(1, 4)), FieldNumber(Frac(3, 2)), FieldText}

Init ==
  /\ skillMap = initialMaps.skillMap
  /\ aliasMap = initialMaps.aliasMap
  /\ QueryIdle
  /\ StoreLoaded
  /\ currentYear = CallYear
  /\ CallIdle
  /\ RateIdle
  /\ OptimizerIdle
  /\ pc = "idle"
  /\ request \in [jobId : RequestJobIds, candidateId : RequestCandidateIds]
  /\ isMockMode \in BOOLEAN
  /\ job = Undefined
  /\ candidate = Undefined
  /\ score = Undefined
  /\ aiAnalysis = EmptyAnalysis
  /\ aiQueue = <<>>
  /\ aiLog = <<>>
  /\ attempt = 0
  /\ outcome = Undefined
  /\ skillName = ""
  /\ normalized = ""

\* match up to its first await: lookups, the not-found errors, the score
Match ==
  /\ pc = "idle" /\ operation = "match"
  /\ job' = findJobById(request.jobId)
  /\ candidate' = findCandidateById(request.candidateId)
  /\ IF job' = Undefined
       THEN /\ outcome' = matchingFailure("Job with ID " \o request.jobId
                                          \o " not found")
            /\ pc' = "done"
            /\ UNCHANGED <<score, aiQueue, candidates>>
     ELSE IF candidate' = Undefined
       THEN /\ outcome' = matchingFailure("Candidate with ID "
                                          \o request.candidateId
                                          \o " not found")
            /\ pc' = "done"
            /\ UNCHANGED <<score, aiQueue, candidates>>
     ELSE /\ score' = calculateMatchingScore(candidate', job')
          /\ candidates' = storeAfterScoring(candidates, {candidate'.id})
          /\ aiQueue' = analysisCalls(candidate', job')
          /\ pc' = "analysis"
          /\ UNCHANGED outcome
  /\ UNCHANGED <<request, aiAnalysis, aiLog, attempt, isMockMode, skillName,
                 normalized, skillMap, aliasMap, queryVars, jobs, callVars, rateVars, optVars>>

\* the call in flight has ended: the analysis goes on with the next call or,
\* after the last one, match builds its response
Resume(result, analysis, queue) ==
  /\ aiLog' = Append(aiLog, [method |-> Head(aiQueue).method,
                             result |-> result])
  /\ aiAnalysis' = analysis
  /\ aiQueue' = queue
  /\ attempt' = 0
  /\ IF queue = <<>>
       THEN /\ outcome' = matchingResponse(candidate, job, score, analysis)
            /\ pc' = "done"
       ELSE UNCHANGED <<outcome, pc>>
  /\ UNCHANGED <<job, candidate, score, request, isMockMode, skillName,
                 normalized, skillMap, aliasMap, queryVars, storeVars, callVars,
                 rateVars, optVars>>

\* mock mode: the method answers from its local heuristic
AIMockCall ==
  /\ pc = "analysis" /\ isMockMode
  /\ Resume("mock",
            recordResult(aiAnalysis, Head(aiQueue), mockResult(Head(aiQueue))),
            Tail(aiQueue))

\* an outbound attempt fails and makeOpenAICall backs off before the next
AIAttemptFails ==
  /\ pc = "analysis" /\ ~isMockMode
  /\ attempt + 1 < MAX_RETRIES
  /\ attempt' = attempt + 1
  /\ UNCHANGED <<pc, job, candidate, score, request, aiAnalysis, aiQueue,
                 aiLog, isMockMode, outcome, skillName, normalized,
                 skillMap, aliasMap, queryVars, storeVars, callVars,
                 rateVars, optVars>>

\* the last attempt fails: success false, the method falls back to its mock
AIRetriesExhausted ==
  /\ pc = "analysis" /\ ~isMockMode
  /\ attempt + 1 = MAX_RETRIES
  /\ Resume("fallback",
            recordResult(aiAnalysis, Head(aiQueue), mockResult(Head(aiQueue))),
            Tail(aiQueue))

\* an attempt succeeds and the reply parses
AIReplyParsed ==
  /\ pc = "analysis" /\ ~isMockMode
  /\ attempt < MAX_RETRIES
  /\ \E field \in AIReplyFields :
       Resume("parsed",
              recordResult(aiAnalysis, Head(aiQueue),
                           parsedResult(Head(aiQueue), field)),
              Tail(aiQueue))

\* an attempt succeeds with a reply that is not valid JSON
AIReplyMalformed ==
  /\ pc = "analysis" /\ ~isMockMode
  /\ attempt < MAX_RETRIES
  /\ Resume("malformed",
            recordResult(aiAnalysis, Head(aiQueue), mockResult(Head(aiQueue))),
            Tail(aiQueue))

\* an AI failure that match hands on to its caller
AICallThrowsPropagated ==
  /\ pc = "analysis"
  /\ aiLog' = Append(aiLog, [method |-> Head(aiQueue).method,
                             result |-> "throw"])
  /\ outcome' = matchingFailure("AI call failed")
  /\ pc' = "done"
  /\ aiQueue' = <<>>
  /\ attempt' = 0
  /\ UNCHANGED <<job, candidate, score, request, aiAnalysis, isMockMode,
                 skillName, normalized, skillMap, aliasMap, queryVars, storeVars, callVars,
                 rateVars, optVars>>

\* the collaborator throws: the catch of performEnhancedAIAnalysis keeps
\* what was analysed so far and skips the remaining calls
AICallThrows ==
  /\ pc = "analysis"
  /\ Resume("throw", aiAnalysis, <<>>)

Next ==
  \/ Match
  \/ AIMockCall
  \/ AIAttemptFails
  \/ AIRetriesExhausted
  \/ AIReplyParsed
  \/ AIReplyMalformed
  \/ AICallThrows

Spec == Init /\ [][Next]_vars

(***************************************************************************)
(* Specification of the service under a caller that invokes operations one  *)
(* after another against the same store, the AI collaborator in its mock    *)
(* configuration: match, and the two rankings behind GET /api/matching      *)
(***************************************************************************)
MaxCalls == 2

CallCandidateIds == RequestCandidateIds \cup {"candidate-3", "candidate-4"}

\* values of the limit parameter: below range, 1, 2 and the default
GetLimits == {0, 1, 2, 10}

\* jobId and candidateId of a GET that asks for a ranking: one of the two,
\* or neither; an empty string stands for an absent parameter
GetQueries ==
  {[jobId |-> j, candidateId |-> ""] : j \in RequestJobIds \cup {""}}
    \cup {[jobId |-> "", candidateId |-> c] : c \in CallCandidateIds}

\* the caller picks an operation and its arguments
Invoked(op, req, lim) ==
  \/ /\ op = "match"
     /\ req \in [jobId : RequestJobIds, candidateId : CallCandidateIds]
     /\ lim = 10
  \/ /\ op = "GET"
     /\ req \in GetQueries
     /\ lim \in GetLimits

InitCalls ==
  /\ skillMap = initialMaps.skillMap
  /\ aliasMap = initialMaps.aliasMap
  /\ QueryIdle
  /\ StoreLoaded
  /\ currentYear = CallYear
  /\ RateIdle
  /\ OptimizerIdle
  /\ pc = "idle"
  /\ operation \in {"match", "GET"}
  /\ limit \in GetLimits
  /\ request \in [jobId : RequestJobIds \cup {""},
                  candidateId : CallCandidateIds \cup {""}]
  /\ Invoked(operation, request, limit)
  /\ invocations = 1
  /\ previous = Undefined
  /\ isMockMode = TRUE
  /\ job = Undefined
  /\ candidate = Undefined
  /\ score = Undefined
  /\ aiAnalysis = EmptyAnalysis
  /\ aiQueue = <<>>
  /\ aiLog = <<>>
  /\ attempt = 0
  /\ outcome = Undefined
  /\ skillName = ""
  /\ normalized = ""

\* GET /api/matching with at most one of jobId and candidateId
Get ==
  /\ pc = "idle" /\ operation = "GET"
  /\ pc' = "done"
  /\ IF limit < 1 \/ limit > 100
       THEN /\ outcome' = errorReply(400, "INVALID_LIMIT")
            /\ UNCHANGED <<job, candidate, candidates>>
     ELSE IF request.jobId = "" /\ request.candidateId = ""
       THEN /\ outcome' = errorReply(400, "MISSING_QUERY_PARAMS")
            /\ UNCHANGED <<job, candidate, candidates>>
     ELSE IF request.jobId # ""
       THEN /\ job' = findJobById(request.jobId)
            /\ UNCHANGED candidate
            /\ IF job' = Undefined
                 THEN /\ outcome' = errorReply(404, "RESOURCE_NOT_FOUND")
                      /\ UNCHANGED candidates
                 ELSE /\ outcome' =
                           rankingReply(findCandidatesForJob(job', limit))
                      /\ candidates' =
                           storeAfterScoring(candidates,
                                             {candidates[i].id :
                                                i \in 1..Len(candidates)})
     ELSE /\ candidate' = findCandidateById(request.candidateId)
          /\ UNCHANGED job
          /\ IF candidate' = Undefined
               THEN /\ outcome' = errorReply(404, "RESOURCE_NOT_FOUND")
                    /\ UNCHANGED candidates
               ELSE /\ outcome' =
                         rankingReply(matchCandidateAgainstAllJobs(candidate'))
                    /\ candidates' =
                         storeAfterScoring(candidates, {candidate'.id})
  /\ UNCHANGED <<score, request, aiAnalysis, aiQueue, aiLog, attempt,
                 isMockMode, skillName, normalized, skillMap, aliasMap,
                 queryVars, jobs, callVars, rateVars, optVars>>

\* the operation has returned and the caller invokes the next one
CallAgain ==
  /\ pc = "done" /\ invocations < MaxCalls
  /\ previous' = [operation |-> operation, request |-> request,
                  limit |-> limit, outcome |-> outcome]
  /\ invocations' = invocations + 1
  /\ \E op \in {"match", "GET"}, lim \in GetLimits,
        req \in [jobId : RequestJobIds \cup {""},
                 candidateId : CallCandidateIds \cup {""}] :
       /\ Invoked(op, req, lim)
       /\ operation' = op
       /\ request' = req
       /\ limit' = lim
  /\ pc' = "idle"
  /\ job' = Undefined
  /\ candidate' = Undefined
  /\ score' = Undefined
  /\ aiAnalysis' = EmptyAnalysis
  /\ aiQueue' = <<>>
  /\ aiLog' = <<>>
  /\ attempt' = 0
  /\ outcome' = Undefined
  /\ UNCHANGED <<isMockMode, skillName, normalized, skillMap, aliasMap,
                 queryVars, storeVars, rateVars, optVars>>

NextCalls == Match \/ AIMockCall \/ Get \/ CallAgain

SpecCalls == InitCalls /\ [][NextCalls]_vars

(***************************************************************************)
(* Specification of the AI service under concurrent callers: each caller    *)
(* invokes one analysis method on the one service, live mode, the OpenAI    *)
(* client initialised.  The method goes through makeOpenAICall: cache,      *)
(* rate limiter, attempts with backoff.  Time passes in steps of TickMs; a  *)
(* timer fires when its time has come, before time passes on                *)
(***************************************************************************)
TickMs == 1000

MaxClock == 4000

\* what the calls of makeOpenAICall modelled here leave alone
besideRate == <<pc, job, candidate, score, request, aiAnalysis, aiQueue, aiLog, attempt, isMockMode, outcome, skillName, normalized, skillMap, aliasMap, queryVars, storeVars, callVars, currentYear, optVars>>

\* the method calls the callers make: two cultural-fit assessments that
\* differ in the candidate's summary, and a validation of an experience
RateCalls ==
  << Call("assessCulturalFit", "", "", "Engineer who leads a team", "Acme"),
     Call("assessCulturalFit", "", "", "Career changer", "Acme"),
     Call("validateExperience", "", "python", "python experience", "") >>

\* the prompt a method builds from its arguments
promptOf(call) ==
  IF call.method = "assessCulturalFit"
    THEN "Assess cultural fit: " \o call.text \o " / " \o call.company
    ELSE "Validate experience: " \o call.skill \o " / " \o call.text

\* maxTokens and temperature a method passes to makeOpenAICall, as
\* string concatenation prints them
maxTokensOf(call) ==
  IF call.method = "assessCulturalFit" THEN "400" ELSE "350"

temperatureOf(call) ==
  IF call.method = "assessCulturalFit" THEN "0.3" ELSE "0.1"

\* the string getCacheKey hashes; the sha256 digest of it is taken to be
\* free of collisions
getCacheKey(prompt, maxTokens, temperature) ==
  prompt \o "|" \o maxTokens \o "|" \o temperature

cacheKeyOf(call) ==
  getCacheKey(promptOf(call), maxTokensOf(call), temperatureOf(call))

\* Map.has, Map.get and Map.set on the entries of the cache
cacheHas(cache, key) == \E i \in 1..Len(cache) : cache[i].key = key

cacheGet(cache, key) ==
  cache[CHOOSE i \in 1..Len(cache) : cache[i].key = key].content

\* Map.set appending an entry also when the key is present
cacheSetAppending(cache, key, content) ==
  Append(cache, [key |-> key, content |-> content])

cacheSet(cache, key, content) ==
  IF cacheHas(cache, key)
    THEN [i \in 1..Len(cache) |->
            IF cache[i].key = key THEN [key |-> key, content |-> content]
            ELSE cache[i]]
    ELSE Append(cache, [key |-> key, content |-> content])

\* contents of a successful reply: JSON with a score of 0.25, and text
\* that is not JSON
ReplyContents == {"{0.25}", "sorry"}

\* validateAndParseJSON: the score field of the parsed reply
parsedField(content) == FieldNumber(Frac(1, 4))

isJSON(content) == content = "{0.25}"

responseSuccess(content) == [success |-> TRUE, data |-> content]

responseFailure(error) ==
  [success |-> FALSE, error |-> error, fallbackUsed |-> TRUE]

\* the analysis method after makeOpenAICall has returned: the parsed reply,
\* or the mock when the call failed or the reply does not parse
methodReturn(call, response) ==
  [response |-> response,
   analysis |->
     IF response.success /\ response.data # "" /\ isJSON(response.data)
       THEN parsedResult(call, parsedField(response.data))
       ELSE mockResult(call)]

\* a retry that goes out without waiting
backoffDelayNone(attempt0) == 0

\* the wait after a failed attempt that is not the last, in milliseconds
backoffDelay(attempt0) == attempt0 * 1000

\* the request of caller p goes out now
sendRequest(p, attempt0) ==
  Append(sent, [caller |-> p, attempt |-> attempt0, time |-> clock])

\* the state of the service and of what surrounds it before the callers
\* make the calls given
InitService(calls) ==
  /\ skillMap = initialMaps.skillMap
  /\ aliasMap = initialMaps.aliasMap
  /\ QueryIdle
  /\ StoreLoaded
  /\ currentYear = CallYear
  /\ CallIdle
  /\ clock = RATE_LIMIT_DELAY
  /\ lastRequestTime = 0
  /\ callerPc = [p \in Callers |-> "ready"]
  /\ wakeAt = [p \in Callers |-> 0]
  /\ attempts = [p \in Callers |-> 0]
  /\ sent = <<>>
  /\ aiCache = <<>>
  /\ callerCall = calls
  /\ OptimizerIdle
  /\ callerResult = [p \in Callers |-> Undefined]
  /\ pc = "rate"
  /\ isMockMode = FALSE
  /\ job = Undefined
  /\ candidate = Undefined
  /\ score = Undefined
  /\ request = NoRequest
  /\ aiAnalysis = EmptyAnalysis
  /\ aiQueue = <<>>
  /\ aiLog = <<>>
  /\ attempt = 0
  /\ outcome = Undefined
  /\ skillName = ""
  /\ normalized = ""

\* every caller makes a call of its own, no two with the same prompt
InitRate == InitService(RateCalls)

\* two callers make a call each, the same one or different ones; the third
\* caller has no call to make
InitCache ==
  \E first, second \in SeqToSet(RateCalls) :
    InitService(<<first, second, Undefined>>)

\* the method and makeOpenAICall up to the first suspension: a cache hit
\* returns the cached content; on a miss enforceRateLimit either starts the
\* timer for the rest of the delay or stamps lastRequestTime, after which
\* the first attempt goes out
BeginCall(p) ==
  /\ callerPc[p] = "ready"
  /\ callerCall[p] # Undefined
  /\ LET timeSinceLastRequest == clock - lastRequestTime
         cacheKey == cacheKeyOf(callerCall[p]) IN
     IF cacheHas(aiCache, cacheKey)
       THEN /\ callerResult' =
                 [callerResult EXCEPT ![p] =
                    methodReturn(callerCall[p],
                                 responseSuccess(cacheGet(aiCache,
                                                          cacheKey)))]
            /\ callerPc' = [callerPc EXCEPT ![p] = "returned"]
            /\ UNCHANGED <<lastRequestTime, wakeAt, attempts, sent>>
     ELSE IF timeSinceLastRequest < RATE_LIMIT_DELAY
       THEN /\ wakeAt' = [wakeAt EXCEPT ![p] =
                            clock + (RATE_LIMIT_DELAY - timeSinceLastRequest)]
            /\ callerPc' = [callerPc EXCEPT ![p] = "delayed"]
            /\ UNCHANGED <<lastRequestTime, attempts, sent, callerResult>>
       ELSE /\ lastRequestTime' = clock
            /\ attempts' = [attempts EXCEPT ![p] = 1]
            /\ sent' = sendRequest(p, 1)
            /\ callerPc' = [callerPc EXCEPT ![p] = "requesting"]
            /\ UNCHANGED <<wakeAt, callerResult>>
  /\ UNCHANGED <<clock, aiCache, callerCall, besideRate>>

\* the timer of enforceRateLimit fires: lastRequestTime is stamped and the
\* first attempt goes out
DelayElapsed(p) ==
  /\ callerPc[p] = "delayed"
  /\ clock >= wakeAt[p]
  /\ lastRequestTime' = clock
  /\ attempts' = [attempts EXCEPT ![p] = 1]
  /\ sent' = sendRequest(p, 1)
  /\ callerPc' = [callerPc EXCEPT ![p] = "requesting"]
  /\ UNCHANGED <<clock, wakeAt, aiCache, callerCall, callerResult,
                 besideRate>>

\* the attempt in flight fails, by a rejected request or an empty reply:
\* the last one ends the call with success false and the method returns
\* its mock, an earlier one starts the backoff timer of attempt * 1000 ms
RequestFails(p) ==
  /\ callerPc[p] = "requesting"
  /\ IF attempts[p] = MAX_RETRIES
       THEN /\ callerPc' = [callerPc EXCEPT ![p] = "returned"]
            /\ callerResult' =
                 [callerResult EXCEPT ![p] =
                    methodReturn(callerCall[p],
                                 responseFailure("request failed"))]
            /\ UNCHANGED wakeAt
       ELSE /\ callerPc' = [callerPc EXCEPT ![p] = "backoff"]
            /\ wakeAt' = [wakeAt EXCEPT ![p] =
                            clock + backoffDelay(attempts[p])]
            /\ UNCHANGED callerResult
  /\ UNCHANGED <<clock, lastRequestTime, attempts, sent, aiCache, callerCall,
                 besideRate>>

\* the backoff timer fires and the next attempt goes out
BackoffElapsed(p) ==
  /\ callerPc[p] = "backoff"
  /\ clock >= wakeAt[p]
  /\ attempts' = [attempts EXCEPT ![p] = @ + 1]
  /\ sent' = sendRequest(p, attempts[p] + 1)
  /\ callerPc' = [callerPc EXCEPT ![p] = "requesting"]
  /\ UNCHANGED <<clock, lastRequestTime, wakeAt, aiCache, callerCall,
                 callerResult, besideRate>>

\* the attempt in flight is answered with content: the content is cached
\* under the key of the call and the call returns it
RequestSucceeds(p) ==
  /\ callerPc[p] = "requesting"
  /\ \E content \in ReplyContents :
       /\ aiCache' = cacheSet(aiCache, cacheKeyOf(callerCall[p]), content)
       /\ callerResult' =
            [callerResult EXCEPT ![p] =
               methodReturn(callerCall[p], responseSuccess(content))]
  /\ callerPc' = [callerPc EXCEPT ![p] = "returned"]
  /\ UNCHANGED <<clock, lastRequestTime, wakeAt, attempts, sent, callerCall,
                 besideRate>>

\* time passes, unless a timer is due
Tick ==
  /\ clock + TickMs <= MaxClock
  /\ \A p \in Callers :
       callerPc[p] \in {"delayed", "backoff"} => clock < wakeAt[p]
  /\ clock' = clock + TickMs
  /\ UNCHANGED <<lastRequestTime, callerPc, wakeAt, attempts, sent, aiCache,
                 callerCall, callerResult, besideRate>>

NextRate ==
  \/ \E p \in Callers : BeginCall(p)
  \/ \E p \in Callers : DelayElapsed(p)
  \/ \E p \in Callers : RequestFails(p)
  \/ \E p \in Callers : BackoffElapsed(p)
  \/ \E p \in Callers : RequestSucceeds(p)
  \/ Tick

SpecRate == InitRate /\ [][NextRate]_vars

SpecCache == InitCache /\ [][NextRate]_vars

(***************************************************************************)
(* The performance optimizer's data cache (performanceOptimizer.ts): a Map  *)
(* from key to entry, kept here as the sequence of its entries in insertion *)
(* order, each with the key it is stored under                              *)
(***************************************************************************)
Null == [null |-> TRUE]

defaultCacheExpiryMinutes == 5

maxCacheSize == 1000

\* Math.ceil(config.maxCacheSize * 0.1)
entriesToRemove == (maxCacheSize + 9) \div 10

MinuteMs == 60 * 1000

\* cache operations a behaviour may make
MaxCacheCalls == 3

\* the time the cache operations start at, and how far the clock may run
CacheStart == 10 * MinuteMs

CacheTickMinutes == 2

MaxCacheClock == CacheStart + 2 * MinuteMs

\* the keys the operations are called with: two that the prepared caches
\* hold and two that they do not
CacheKeys == {"key-1", "key-12", "key-1001", "key-1002"}

\* the expiryMinutes the entries are set with
ExpiryMinutes == {defaultCacheExpiryMinutes, 1}

dataCacheKeys(cache) == {cache[i].key : i \in 1..Len(cache)}

\* dataCache.get(key)
dataCacheGet(cache, key) ==
  IF key \in dataCacheKeys(cache)
    THEN cache[CHOOSE i \in 1..Len(cache) : cache[i].key = key]
    ELSE Undefined

\* dataCache.set(key, entry): an entry under a key the Map holds is replaced
\* where it stands, any other is added at the end
dataCacheSet(cache, key, entry) ==
  IF key \in dataCacheKeys(cache)
    THEN [cache EXCEPT ![CHOOSE i \in 1..Len(cache) : cache[i].key = key] =
                          [key |-> key, data |-> entry.data,
                           expiryTime |-> entry.expiryTime]]
    ELSE Append(cache, [key |-> key, data |-> entry.data,
                        expiryTime |-> entry.expiryTime])

\* dataCache.delete for each of the keys given
dataCacheDelete(cache, keys) == SelectSeq(cache, LAMBDA e : e.key \notin keys)

\* the keys of the entries that stand first after
\* entries.sort((a, b) => a[1].expiryTime - b[1].expiryTime): the sort is
\* stable, entries of equal expiry time keep their insertion order
earliestKeys(cache, count) ==
  LET n == Len(cache)
      times == {cache[i].expiryTime : i \in 1..n}
      upTo(t) == Cardinality({j \in 1..n : cache[j].expiryTime <= t})
      \* the expiry times all of whose entries are among the first count
      whole == {t \in times : upTo(t) <= count}
      \* the expiry time only some of whose entries are
      partial == {t \in times : /\ upTo(t) > count
                                /\ \A u \in times : u < t => upTo(u) <= count}
      rest == count - Cardinality({j \in 1..n : cache[j].expiryTime \in whole})
      first == {i \in 1..n :
                  \/ cache[i].expiryTime \in whole
                  \/ /\ cache[i].expiryTime \in partial
                     /\ Cardinality({j \in 1..(i - 1) :
                                       cache[j].expiryTime = cache[i].expiryTime})
                          < rest}
  IN {cache[i].key : i \in first}

\* the eviction left out
evictEarliestNothing(cache) == cache

\* the loop of setCache that deletes the first entriesToRemove entries of
\* the sorted array
evictEarliest(cache) ==
  dataCacheDelete(cache, earliestKeys(cache, entriesToRemove))

setCache(cache, key, data, expiryMinutes, now) ==
  LET expiryTime == now + expiryMinutes * 60 * 1000
      room == IF Len(cache) >= maxCacheSize THEN evictEarliest(cache)
                                              ELSE cache
  IN dataCacheSet(room, key, [data |-> data, expiryTime |-> expiryTime])

\* the entry under the key is there and Date.now() > entry.expiryTime
isExpired(cache, key, now) ==
  /\ dataCacheGet(cache, key) # Undefined
  /\ now > dataCacheGet(cache, key).expiryTime

\* the cache after getCached or hasCached looked the key up
afterLookup(cache, key, now) ==
  IF isExpired(cache, key, now) THEN dataCacheDelete(cache, {key}) ELSE cache

getCached(cache, key, now) ==
  IF dataCacheGet(cache, key) = Undefined \/ isExpired(cache, key, now)
    THEN Null
    ELSE dataCacheGet(cache, key).data

hasCached(cache, key, now) ==
  /\ dataCacheGet(cache, key) # Undefined
  /\ ~isExpired(cache, key, now)

cleanupCache(cache, now) ==
  dataCacheDelete(cache, {cache[i].key : i \in {j \in 1..Len(cache) :
                                                   now > cache[j].expiryTime}})

clearCache(cache, key) == dataCacheDelete(cache, {key})

\* a cache that setCache calls with fresh keys have filled: key-1, key-2, ...
\* in this order, the i-th entry expiring expiryAfter(i) minutes after
\* CacheStart
filledCache(size, expiryAfter(_)) ==
  [i \in 1..size |->
     [key |-> "key-" \o ToString(i), data |-> "old",
      expiryTime |-> CacheStart + expiryAfter(i) * MinuteMs]]

\* entries set in four bursts a minute apart with the same expiryMinutes
burstExpiry(i) == 1 + (i - 1) \div 250

\* entries set with differing expiryMinutes: every twelfth expires first,
\* the ones half way between them next, all others later
mixedExpiry(i) == IF i % 12 = 0 THEN 1 ELSE IF i % 12 = 6 THEN 3 ELSE 5

\* the caches the operations start from: the empty one of a new optimizer,
\* full ones, and one that is an entry short of full
PreparedCaches ==
  {<<>>,
   filledCache(maxCacheSize, burstExpiry),
   filledCache(maxCacheSize, mixedExpiry),
   filledCache(maxCacheSize - 1, burstExpiry)}

\* what a cache operation leaves alone
besideDataCache == <<job, candidate, score, request, aiAnalysis, aiQueue, aiLog, attempt, isMockMode, outcome, skillName, normalized, skillMap, aliasMap, queryVars, storeVars, operation, limit, previous, lastRequestTime, callerPc, wakeAt, attempts, sent, aiCache, callerCall, callerResult, currentYear, debounceTimers, liveTimers, runs, timerCount>>

\* everything but the optimizer, at rest
OptimizerAlone ==
  /\ skillMap = initialMaps.skillMap
  /\ aliasMap = initialMaps.aliasMap
  /\ QueryIdle
  /\ StoreLoaded
  /\ currentYear = CallYear
  /\ operation = "match"
  /\ limit = 10
  /\ invocations = 0
  /\ previous = Undefined
  /\ lastRequestTime = 0
  /\ callerPc = [p \in Callers |-> "ready"]
  /\ wakeAt = [p \in Callers |-> 0]
  /\ attempts = [p \in Callers |-> 0]
  /\ sent = <<>>
  /\ aiCache = <<>>
  /\ callerCall = [p \in Callers |-> Undefined]
  /\ callerResult = [p \in Callers |-> Undefined]
  /\ isMockMode = FALSE
  /\ job = Undefined
  /\ candidate = Undefined
  /\ score = Undefined
  /\ request = NoRequest
  /\ aiAnalysis = EmptyAnalysis
  /\ aiQueue = <<>>
  /\ aiLog = <<>>
  /\ attempt = 0
  /\ outcome = Undefined
  /\ skillName = ""
  /\ normalized = ""

InitDataCache ==
  /\ OptimizerAlone
  /\ pc = "cache"
  /\ clock = CacheStart
  /\ dataCache \in PreparedCaches
  /\ cacheReply = Undefined
  /\ debounceTimers = {}
  /\ liveTimers = {}
  /\ runs = <<>>
  /\ timerCount = 0

SetCache(key, expiryMinutes) ==
  /\ pc = "cache" /\ invocations < MaxCacheCalls
  /\ dataCache' = setCache(dataCache, key, "new", expiryMinutes, clock)
  /\ cacheReply' = [op |-> "setCache", key |-> key, value |-> Undefined]
  /\ invocations' = invocations + 1
  /\ UNCHANGED <<pc, clock, besideDataCache>>

GetCached(key) ==
  /\ pc = "cache" /\ invocations < MaxCacheCalls
  /\ dataCache' = afterLookup(dataCache, key, clock)
  /\ cacheReply' = [op |-> "getCached", key |-> key,
                    value |-> getCached(dataCache, key, clock)]
  /\ invocations' = invocations + 1
  /\ UNCHANGED <<pc, clock, besideDataCache>>

HasCached(key) ==
  /\ pc = "cache" /\ invocations < MaxCacheCalls
  /\ dataCache' = afterLookup(dataCache, key, clock)
  /\ cacheReply' = [op |-> "hasCached", key |-> key,
                    value |-> hasCached(dataCache, key, clock)]
  /\ invocations' = invocations + 1
  /\ UNCHANGED <<pc, clock, besideDataCache>>

CleanupCache ==
  /\ pc = "cache" /\ invocations < MaxCacheCalls
  /\ dataCache' = cleanupCache(dataCache, clock)
  /\ cacheReply' = [op |-> "cleanupCache", key |-> "", value |-> Undefined]
  /\ invocations' = invocations + 1
  /\ UNCHANGED <<pc, clock, besideDataCache>>

ClearCache(key) ==
  /\ pc = "cache" /\ invocations < MaxCacheCalls
  /\ dataCache' = clearCache(dataCache, key)
  /\ cacheReply' = [op |-> "clearCache", key |-> key, value |-> Undefined]
  /\ invocations' = invocations + 1
  /\ UNCHANGED <<pc, clock, besideDataCache>>

\* time passes between two cache operations
MinutesPass ==
  /\ pc = "cache"
  /\ clock + CacheTickMinutes * MinuteMs <= MaxCacheClock
  /\ clock' = clock + CacheTickMinutes * MinuteMs
  /\ UNCHANGED <<pc, invocations, dataCache, cacheReply, besideDataCache>>

SetCacheCalled == \E key \in CacheKeys, minutes \in ExpiryMinutes : SetCache(key, minutes)

GetCachedCalled == \E key \in CacheKeys : GetCached(key)

HasCachedCalled == \E key \in CacheKeys : HasCached(key)

ClearCacheCalled == \E key \in CacheKeys : ClearCache(key)

NextDataCache ==
  \/ SetCacheCalled
  \/ GetCachedCalled
  \/ HasCachedCalled
  \/ CleanupCache
  \/ ClearCacheCalled
  \/ MinutesPass

SpecDataCache == InitDataCache /\ [][NextDataCache]_vars

(***************************************************************************)
(* The performance optimizer's debounce (performanceOptimizer.ts):          *)
(* debounceTimers is the set of its entries, key and timer; a timer is live *)
(* from setTimeout until it fires or clearTimeout is called on it           *)
(***************************************************************************)
\* calls of debounced functions a behaviour may make from outside
MaxDebounceCalls == 3

DebounceTickMs == 100

MaxDebounceClock == CacheStart + 6 * DebounceTickMs

\* the functions debounce was called for: func "plain" only runs, func
\* "again" calls its own debounced function once more, with the argument
\* "retry", unless it was itself called with "retry"; two of them share the
\* key "search"
DebouncedFunctions ==
  {[func |-> "plain", delay |-> 2 * DebounceTickMs, key |-> "search"],
   [func |-> "again", delay |-> 2 * DebounceTickMs, key |-> "search"],
   [func |-> "plain", delay |-> DebounceTickMs, key |-> "save"]}

DebounceArgs == {"a", "b"}

DebounceKeys == {d.key : d \in DebouncedFunctions}

\* debounceTimers.has(key)
timersHas(timers, key) == \E e \in timers : e.key = key

\* debounceTimers.get(key)
timersGet(timers, key) ==
  IF timersHas(timers, key) THEN (CHOOSE e \in timers : e.key = key).timer
                            ELSE Undefined

\* debounceTimers.delete(key)
timersDelete(timers, key) == {e \in timers : e.key # key}

\* debounceTimers.set(key, timer)
timersSet(timers, key, timer) ==
  timersDelete(timers, key) \cup {[key |-> key, timer |-> timer]}

\* clearTimeout(timer): a timer that fired or was cleared is left as it is
clearTimeout(live, timer) == {t \in live : t.id # timer}

\* the function debounce returns, called with args: debounceTimers, the live
\* timers, the events and the timer count after the call
debounced(d, args, timers, live, events, count, now) ==
  LET cleared == IF timersHas(timers, d.key)
                   THEN clearTimeout(live, timersGet(timers, d.key))
                   ELSE live
      timer == count + 1
  IN [timers |-> timersSet(timers, d.key, timer),
      live |-> cleared \cup {[id |-> timer, of |-> d, args |-> args,
                              fireAt |-> now + d.delay]},
      events |-> Append(events, [kind |-> "call", key |-> d.key,
                                 func |-> d.func, delay |-> d.delay,
                                 args |-> args, at |-> now]),
      count |-> timer]

\* the timer callback: func(...args), which may call the debounced function
\* again, and then debounceTimers.delete(key)
timerCallback(t, timers, live, events, count, now) ==
  LET ran == Append(events, [kind |-> "run", key |-> t.of.key,
                             func |-> t.of.func, delay |-> t.of.delay,
                             args |-> t.args, at |-> now])
      fired == clearTimeout(live, t.id)
      after == IF t.of.func = "again" /\ t.args # "retry"
                 THEN debounced(t.of, "retry", timers, fired, ran, count, now)
                 ELSE [timers |-> timers, live |-> fired, events |-> ran,
                       count |-> count]
  IN [timers |-> timersDelete(after.timers, t.of.key), live |-> after.live,
      events |-> after.events, count |-> after.count]

\* what a debounce operation leaves alone
besideDebounce == <<job, candidate, score, request, aiAnalysis, aiQueue, aiLog, attempt, isMockMode, outcome, skillName, normalized, skillMap, aliasMap, queryVars, storeVars, operation, limit, previous, lastRequestTime, callerPc, wakeAt, attempts, sent, aiCache, callerCall, callerResult, currentYear, dataCache, cacheReply>>

InitDebounce ==
  /\ OptimizerAlone
  /\ pc = "debounce"
  /\ clock = CacheStart
  /\ dataCache = <<>>
  /\ cacheReply = Undefined
  /\ debounceTimers = {}
  /\ liveTimers = {}
  /\ runs = <<>>
  /\ timerCount = 0

\* a caller calls a debounced function
CallDebounced(d, args) ==
  /\ pc = "debounce" /\ invocations < MaxDebounceCalls
  /\ LET after == debounced(d, args, debounceTimers, liveTimers, runs,
                            timerCount, clock)
     IN /\ debounceTimers' = after.timers
        /\ liveTimers' = after.live
        /\ runs' = after.events
        /\ timerCount' = after.count
  /\ invocations' = invocations + 1
  /\ UNCHANGED <<pc, clock, besideDebounce>>

\* a live timer is due and its callback runs to the end
TimerFires(t) ==
  /\ pc = "debounce"
  /\ t \in liveTimers /\ t.fireAt <= clock
  /\ LET after == timerCallback(t, debounceTimers, liveTimers, runs,
                                timerCount, clock)
     IN /\ debounceTimers' = after.timers
        /\ liveTimers' = after.live
        /\ runs' = after.events
        /\ timerCount' = after.count
  /\ UNCHANGED <<pc, clock, invocations, besideDebounce>>

ClearDebounce(key) ==
  /\ pc = "debounce" /\ invocations < MaxDebounceCalls
  /\ IF timersHas(debounceTimers, key)
       THEN /\ liveTimers' = clearTimeout(liveTimers,
                                          timersGet(debounceTimers, key))
            /\ debounceTimers' = timersDelete(debounceTimers, key)
       ELSE UNCHANGED <<liveTimers, debounceTimers>>
  /\ invocations' = invocations + 1
  /\ UNCHANGED <<pc, clock, runs, timerCount, besideDebounce>>

\* time passes, unless a timer is due
DebounceTick ==
  /\ pc = "debounce"
  /\ clock + DebounceTickMs <= MaxDebounceClock
  /\ \A t \in liveTimers : clock < t.fireAt
  /\ clock' = clock + DebounceTickMs
  /\ UNCHANGED <<pc, invocations, debounceTimers, liveTimers, runs,
                 timerCount, besideDebounce>>

DebouncedCalled == \E d \in DebouncedFunctions, args \in DebounceArgs : CallDebounced(d, args)

TimerDue == \E t \in liveTimers : TimerFires(t)

ClearDebounceCalled == \E key \in DebounceKeys : ClearDebounce(key)

NextDebounce ==
  \/ DebouncedCalled
  \/ TimerDue
  \/ ClearDebounceCalled
  \/ DebounceTick

SpecDebounce == InitDebounce /\ [][NextDebounce]_vars

(***************************************************************************)
(* Specification of the normalizer alone: one call of normalizeSkill on a   *)
(* registered id, canonical name or alias, written in some letter case and  *)
(* wrapped in some whitespace                                               *)
(***************************************************************************)
UpperChar(c) ==
  IF \E i \in 1..Len(LowerCase) : LowerCase[i] = c
    THEN UpperCase[CHOOSE i \in 1..Len(LowerCase) : LowerCase[i] = c]
    ELSE c

RECURSIVE toUpperCase(_)
toUpperCase(s) ==
  IF s = "" THEN "" ELSE UpperChar(Head(s)) \o toUpperCase(Tail(s))

\* the ids, canonical names and aliases of one registry entry
keysOf(skill) ==
  {skill.id, skill.canonicalName} \cup SeqToSet(skill.aliases)

RegisteredKeys == UNION {keysOf(skills[i]) : i \in 1..Len(skills)}

Paddings == {<<"", "">>, <<" ", "">>, <<"", " ">>, <<"\t ", " \n">>}

\* names no registry entry owns: two unknown skills, an abbreviation whose
\* target is not registered, and the empty name
UnregisteredNames == {"FooBarSkill", "COBOL", "Machine Learning", ""}

NormalizerInputs ==
  {p[1] \o w \o p[2] :
     w \in UNION {{k, toUpperCase(k), toLowerCase(k)} :
                    k \in RegisteredKeys \cup UnregisteredNames},
     p \in Paddings}

\* words the extraction texts are made of: a canonical name, a name followed
\* by a comma, two aliases, two fragments of names, two short words and an
\* unknown word
ExtractionWords ==
  {"React", "Node.js,", "TS", "K8s", "reac", "script", "and", "in", "COBOL"}

MaxWords == 3

RECURSIVE joinWords(_)
joinWords(ws) ==
  IF ws = <<>> THEN ""
  ELSE IF Len(ws) = 1 THEN ws[1]
  ELSE ws[1] \o " " \o joinWords(Tail(ws))

ExtractionTexts ==
  {joinWords(ws) : ws \in UNION {[1..n -> ExtractionWords] : n \in 0..MaxWords}}
    \cup {"Experienced in React, Node.js, and TypeScript.",
          " react\t\n REACT ", "Docker and AWS Cloud"}

\* the registered ids, the lower-cased canonical name of a registered skill
\* that differs from its id, an id that occurs only in relatedSkills lists,
\* and an id nothing knows
RelatedQueryIds ==
  {skills[i].id : i \in 1..Len(skills)} \cup {"node.js", "redux", "nosuchskill"}

InitNorm ==
  /\ skillMap = initialMaps.skillMap
  /\ aliasMap = initialMaps.aliasMap
  /\ StoreLoaded
  /\ currentYear = CallYear
  /\ CallIdle
  /\ RateIdle
  /\ OptimizerIdle
  /\ \/ /\ pc = "normalize"
        /\ skillName \in NormalizerInputs
        /\ QueryIdle
     \/ /\ pc = "extract"
        /\ inputText \in ExtractionTexts
        /\ skillName = ""
        /\ extraction = Undefined
        /\ querySkill1 = ""
        /\ querySkill2 = ""
        /\ areRelated = Undefined
     \/ /\ pc = "relate"
        /\ querySkill1 \in RelatedQueryIds
        /\ querySkill2 \in RelatedQueryIds
        /\ skillName = ""
        /\ inputText = ""
        /\ extraction = Undefined
        /\ areRelated = Undefined
  /\ normalized = ""
  /\ job = Undefined
  /\ candidate = Undefined
  /\ score = Undefined
  /\ request = NoRequest
  /\ aiAnalysis = EmptyAnalysis
  /\ aiQueue = <<>>
  /\ aiLog = <<>>
  /\ attempt = 0
  /\ isMockMode = TRUE
  /\ outcome = Undefined

Normalize ==
  /\ pc = "normalize"
  /\ normalized' = normalizeSkill(skillName)
  /\ pc' = "normalized"
  /\ UNCHANGED <<job, candidate, score, request, aiAnalysis, aiQueue, aiLog,
                 attempt, isMockMode, outcome, skillName, skillMap, aliasMap,
                 queryVars, storeVars, callVars,
                 rateVars, optVars>>

Extract ==
  /\ pc = "extract"
  /\ extraction' = extractSkillsFromText(inputText)
  /\ pc' = "extracted"
  /\ UNCHANGED <<job, candidate, score, request, aiAnalysis, aiQueue, aiLog,
                 attempt, isMockMode, outcome, skillName, normalized,
                 skillMap, aliasMap, inputText, querySkill1, querySkill2, areRelated,
                 storeVars, callVars,
                 rateVars, optVars>>

Relate ==
  /\ pc = "relate"
  /\ areRelated' = areSkillsRelated(querySkill1, querySkill2)
  /\ pc' = "related"
  /\ UNCHANGED <<job, candidate, score, request, aiAnalysis, aiQueue, aiLog,
                 attempt, isMockMode, outcome, skillName, normalized,
                 skillMap, aliasMap, inputText, extraction, querySkill1, querySkill2,
                 storeVars, callVars,
                 rateVars, optVars>>

NextNorm == Normalize \/ Extract \/ Relate

SpecNorm == InitNorm /\ [][NextNorm]_vars

(***************************************************************************)
(* Properties                                                               *)
(***************************************************************************)
InUnitInterval(x) == Le(Num(0), x) /\ Le(x, Num(1))

\* the relation of the registry between two registered skill ids, either way
registryLinked(a, b) ==
  \E i, k \in 1..Len(skills) :
    /\ skills[i].id = a /\ skills[k].id = b
    /\ \/ b \in SeqToSet(skills[i].relatedSkills)
       \/ a \in SeqToSet(skills[k].relatedSkills)

listsSkill(cand, skillId) == skillId \in SeqToSet(cand.skills)

recordsOf(cand, skillId) ==
  {i \in 1..Len(cand.experience) : cand.experience[i].skillId = skillId}

\* C1: every sub-score and the overall score returned by
\* calculateMatchingScore is a number within [0,1]
C1_ScoresWithinUnitInterval ==
  pc = "scored" =>
    /\ InUnitInterval(score.overallScore)
    /\ InUnitInterval(score.skillMatchScore)
    /\ InUnitInterval(score.experienceScore)
    /\ InUnitInterval(score.transferableSkillsScore)
    /\ InUnitInterval(score.potentialScore)

\* some record of the skill reaches the requirement's duration and level
someRecordMeets(cand, requirement) ==
  \E i \in recordsOf(cand, requirement.skillId) :
    /\ cand.experience[i].duration >= requirement.minDuration
    /\ cand.experience[i].complexityLevel >= requirement.requiredLevel

\* the first record of the skill reaches the requirement's duration and level
firstRecordMeets(cand, requirement) ==
  /\ recordsOf(cand, requirement.skillId) # {}
  /\ LET i == CHOOSE i \in recordsOf(cand, requirement.skillId) :
                \A h \in recordsOf(cand, requirement.skillId) : i <= h IN
     /\ cand.experience[i].duration >= requirement.minDuration
     /\ cand.experience[i].complexityLevel >= requirement.requiredLevel

\* a requirement of zero months answered by a first record of zero months
zeroOverZero(cand, requirement) ==
  /\ requirement.minDuration = 0
  /\ \E i \in recordsOf(cand, requirement.skillId) :
       /\ cand.experience[i].duration = 0
       /\ \A h \in recordsOf(cand, requirement.skillId) : i <= h

shortfall(cand, requirement) ==
  LET experience == findRelevantExperience(requirement.skillId, cand)
      held == IF experience = Undefined THEN 0 ELSE experience.duration IN
  IF requirement.minDuration - held > 0
    THEN requirement.minDuration - held ELSE 0

\* C6: experienceGaps holds exactly one entry per requirement of positive
\* shortfall, in requirement order, each with gap equal to that shortfall
C6_GapsExactlyPositiveShortfalls ==
  pc = "scored" =>
    LET gaps == score.breakdown.experienceGaps
        expected ==
          Flatten([i \in 1..Len(job.requirements) |->
                     IF shortfall(candidate, job.requirements[i]) > 0
                       THEN << <<job.requirements[i].skillId,
                                 shortfall(candidate, job.requirements[i])>> >>
                       ELSE <<>>])
    IN /\ [k \in 1..Len(gaps) |-> <<gaps[k].skillId, gaps[k].gap>>] = expected
       /\ \A k \in 1..Len(gaps) : gaps[k].gap > 0

\* requirement i is not listed by the candidate, who has a record of positive
\* duration in a registered skill related to it
transferableCase(i) ==
  /\ i \in 1..Len(job.requirements)
  /\ ~listsSkill(candidate, job.requirements[i].skillId)
  /\ \E k \in 1..Len(candidate.experience) :
       /\ candidate.experience[k].duration > 0
       /\ registryLinked(job.requirements[i].skillId,
                         candidate.experience[k].skillId)

\* C7 as claimed: such a requirement is in relatedSkills, not in
\* missingSkills, and transferableSkillsScore > 0
C7_RelatedExperienceCounts ==
  pc = "scored" =>
    \A i \in 1..Len(job.requirements) :
      transferableCase(i) =>
        /\ job.requirements[i].skillId
             \in SeqToSet(score.breakdown.relatedSkills)
        /\ job.requirements[i].skillId
             \notin SeqToSet(score.breakdown.missingSkills)
        /\ Gt(score.transferableSkillsScore, Num(0))

\* C7 amended: such a requirement is in relatedSkills and not in
\* missingSkills, and the transferable skills score is > 0 before rounding;
\* the returned 2-decimal transferableSkillsScore is > 0 exactly when the
\* unrounded score is at least 0.005
C7_RelatedExperienceCountsUnrounded ==
  pc = "scored" =>
    \A i \in 1..Len(job.requirements) :
      transferableCase(i) =>
        LET raw == calculateTransferableSkillsScore(job.requirements,
                                                    candidate).score IN
        /\ job.requirements[i].skillId
             \in SeqToSet(score.breakdown.relatedSkills)
        /\ job.requirements[i].skillId
             \notin SeqToSet(score.breakdown.missingSkills)
        /\ Gt(raw, Num(0))
        /\ Gt(score.transferableSkillsScore, Num(0)) <=> Ge(raw, Frac(1, 200))

\* C7 witness: a related requirement whose transferable score rounds to 0
C7_Witness ==
  /\ pc = "scored"
  /\ \E i \in 1..Len(job.requirements) : transferableCase(i)
  /\ score.transferableSkillsScore = Num(0)

\* C8: a job without requirements scores 0 on skill match, experience and
\* transferable skills, for any candidate
C8_NoRequirementsScoreZero ==
  (pc = "scored" /\ Len(job.requirements) = 0) =>
    /\ score.skillMatchScore = Num(0)
    /\ score.experienceScore = Num(0)
    /\ score.transferableSkillsScore = Num(0)

\* C8 witness: an empty job scored for a candidate with skills and records
C8_Witness ==
  /\ pc = "scored"
  /\ Len(job.requirements) = 0
  /\ Len(candidate.experience) > 0
  /\ Len(candidate.skills) > 0
  /\ score.skillMatchScore = Num(0)

(***************************************************************************)
(* Properties of match                                                      *)
(***************************************************************************)
storedJobIds == {sampleJobs[i].id : i \in 1..Len(sampleJobs)}
storedCandidateIds == {sampleCandidates[i].id : i \in 1..Len(sampleCandidates)}

\* the request names a job or a candidate the store does not hold
unresolved ==
  \/ request.jobId \notin storedJobIds
  \/ request.candidateId \notin storedCandidateIds

\* the stored records the request names
requestedJob ==
  CHOOSE j \in SeqToSet(sampleJobs) : j.id = request.jobId
requestedCandidate ==
  CHOOSE c \in SeqToSet(sampleCandidates) : c.id = request.candidateId

responded == pc = "done" /\ outcome.kind = "response"

\* C2: when the job id or the candidate id does not resolve, match fails
\* with a not-found error, and the scoring engine has not run and no AI
\* collaborator call has been issued or queued at any point of the request
C2_NotFoundBeforeScoringAndAI ==
  unresolved =>
    /\ score = Undefined
    /\ aiQueue = <<>>
    /\ aiLog = <<>>
    /\ pc \in {"idle", "done"}
    /\ pc = "done" =>
         /\ outcome.kind = "error"
         /\ includes(outcome.message, "not found")

C2_Witness ==
  /\ pc = "done"
  /\ request.jobId \in storedJobIds
  /\ request.candidateId \notin storedCandidateIds
  /\ outcome = [kind |-> "error",
                message |-> "Matching failed: Candidate with ID candidate-404 not found"]

\* the steps match can still take at most: one for the lookups and the
\* score, then MAX_RETRIES per call of the analysis
remainingSteps ==
  IF pc = "idle"
    THEN 1 + MAX_RETRIES * (maxAnalysisSkills + 1 + maxAnalysisLearning
                            + maxAnalysisExperiences)
  ELSE IF pc = "analysis" THEN MAX_RETRIES * Len(aiQueue) - attempt
  ELSE 0

C4_ConfidenceWithinBounds ==
  responded =>
    /\ Le(Frac(3, 10), outcome.confidence)
    /\ Le(outcome.confidence, Num(1))

\* every call of the request went out and lost all its attempts
allAttemptsFailed ==
  /\ responded
  /\ ~isMockMode
  /\ Len(aiLog) = Len(analysisCalls(requestedCandidate, requestedJob))
  /\ \A i \in 1..Len(aiLog) : aiLog[i].result = "fallback"

aiSentences == {"ai_transferability", "ai_cultural_fit", "ai_learning_time"}

fallbackBonus ==
  LET cand == requestedCandidate
      j == requestedJob
      validated == sliceTo(cand.experience, maxAnalysisExperiences)
      calls == analysisCalls(cand, j)
      transfers == {i \in 1..Len(calls) :
                      calls[i].method = "analyzeSkillTransferability"}
      transferScore(i) ==
        getMockSkillTransferability(calls[i].source, calls[i].skill,
                                    calls[i].text).transferabilityScore
  IN Add(Add(IF transfers = {} THEN Num(0)
             ELSE Mul(averageOf([i \in 1..Cardinality(transfers) |->
                                   transferScore(i)]),
                      Frac(1, 10)),
             Mul(getMockCulturalFit(cand.summary, j.company).culturalFitScore,
                 Frac(5, 100))),
         IF validated = <<>> THEN Num(0)
         ELSE Mul(averageOf([i \in 1..Len(validated) |->
                    getMockExperienceValidation(
                      describedOr(validated[i].projectDescription,
                                  validated[i].skillId)).confidence]),
                  Frac(1, 10)))

weightedSum(a, b, c, d) ==
  Add(Add(Add(Mul(a, Frac(40, 100)), Mul(b, Frac(30, 100))),
          Mul(c, Frac(20, 100))),
      Mul(d, Frac(10, 100)))

C20_DirectlyHeldContributeNothing ==
  (/\ pc = "scored"
   /\ \A i \in 1..Len(job.requirements) :
        listsSkill(candidate, job.requirements[i].skillId))
  => score.transferableSkillsScore = Num(0)

\* the candidate has an experience record in a skill the registry relates
\* to the given one
hasRelatedExperience(cand, skillId) ==
  \E i \in 1..Len(cand.experience) :
    registryLinked(skillId, cand.experience[i].skillId)

\* C21: a requirement is in breakdown.missingSkills exactly when the
\* candidate neither lists its skill nor has an experience record in a
\* related skill, whatever the duration of that record
C21_MissingExactlyUnheldUnrelated ==
  pc = "scored" =>
    \A i \in 1..Len(job.requirements) :
      LET skillId == job.requirements[i].skillId IN
      (skillId \in SeqToSet(score.breakdown.missingSkills))
        <=> (/\ ~listsSkill(candidate, skillId)
             /\ ~hasRelatedExperience(candidate, skillId))

\* C22: the breakdown puts every requirement occurrence into exactly one
\* of matchedSkills, relatedSkills and missingSkills: the lengths add up to
\* the number of requirements and no skill id is in two of the lists
C22_RequirementsClassifiedOnce ==
  pc = "scored" =>
    LET matched == score.breakdown.matchedSkills
        related == score.breakdown.relatedSkills
        missing == score.breakdown.missingSkills IN
    /\ Len(matched) + Len(related) + Len(missing) = Len(job.requirements)
    /\ SeqToSet(matched) \cap SeqToSet(related) = {}
    /\ SeqToSet(matched) \cap SeqToSet(missing) = {}
    /\ SeqToSet(related) \cap SeqToSet(missing) = {}

\* two requirements for one skill, each of them classified as related
C22_Witness ==
  /\ pc = "scored"
  /\ Len(job.requirements) = 2
  /\ job.requirements[1].skillId = job.requirements[2].skillId
  /\ Len(score.breakdown.relatedSkills) = 2

\* 0.8, +0.1 if any skill matched, +0.05 if no skill is missing, +0.05 if
\* there is no experience gap, -0.05 per gap above 12 months, -0.1 if more
\* skills are missing than matched
breakdownSum(breakdown) ==
  LET matched == Len(breakdown.matchedSkills)
      missing == Len(breakdown.missingSkills)
      gaps == breakdown.experienceGaps
      large == Cardinality({i \in 1..Len(gaps) : gaps[i].gap > 12})
  IN Frac(80 + (IF matched > 0 THEN 10 ELSE 0)
             + (IF missing = 0 THEN 5 ELSE 0)
             + (IF Len(gaps) = 0 THEN 5 ELSE 0)
             - 5 * large
             - (IF missing > matched THEN 10 ELSE 0), 100)

\* the three terms of the AI analysis, each counted when its signal is
\* present, the validation term with the given weight
analysisSum(analysis, validationWeight) ==
  LET transfers == analysis.skillTransferability
      validations == analysis.experienceValidation
  IN Add(Add(IF Len(transfers) > 0
               THEN Mul(Div(SumSeq([i \in 1..Len(transfers) |->
                                      transfers[i].transferabilityScore]),
                            Num(Len(transfers))), Frac(1, 10))
               ELSE Num(0),
             IF analysis.culturalFit # Undefined
               THEN Mul(analysis.culturalFit.culturalFitScore, Frac(5, 100))
               ELSE Num(0)),
         IF Len(validations) > 0
           THEN Mul(Div(SumSeq([i \in 1..Len(validations) |->
                                  validations[i].confidence]),
                        Num(Len(validations))), validationWeight)
           ELSE Num(0))

clampConfidence(x) == MathMin(Num(1), MathMax(Frac(3, 10), x))

C28_RecentEducationByCurrentYear ==
  pc = "scored" =>
    ("Recent education" \in SeqToSet(score.breakdown.potentialIndicators))
      <=> \E i \in 1..Len(candidate.education) :
            currentYear - candidate.education[i].graduationYear <= 5

(***************************************************************************)
(* Properties of the rankings and of repeated calls                         *)
(***************************************************************************)
\* a GET has returned a ranking
ranked == pc = "done" /\ operation = "GET" /\ outcome.kind = "ranking"

\* the id of the counterpart entity of a ranking entry: the candidate in a
\* ranking for a job, the job in a ranking for a candidate
counterpartId(entry) ==
  IF request.jobId # "" THEN entry.candidate.id ELSE entry.job.id

\* C14: the results of findCandidatesForJob and of
\* matchCandidateAgainstAllJobs are in an order in which overallScore never
\* increases, and no candidate (no job) occurs in them twice
C14_RankingsDescendingDistinct ==
  ranked =>
    \A i, k \in 1..Len(outcome.results) :
      i < k =>
        /\ Ge(outcome.results[i].score.overallScore,
              outcome.results[k].score.overallScore)
        /\ counterpartId(outcome.results[i])
             # counterpartId(outcome.results[k])

\* both rankings put the store's entries in another order than the store
C14_Witness ==
  /\ ranked
  /\ invocations = 2
  /\ previous.operation = "GET"
  /\ previous.request = [jobId |-> "", candidateId |-> "candidate-1"]
  /\ previous.outcome.kind = "ranking"
  /\ [i \in 1..3 |-> previous.outcome.results[i].job.id]
       = <<"job-2", "job-1", "job-3">>
  /\ request = [jobId |-> "job-2", candidateId |-> ""]
  /\ [i \in 1..Len(outcome.results) |-> outcome.results[i].candidate.id]
       = <<"candidate-1", "candidate-3", "candidate-2", "candidate-4">>

\* the full ranking the request asks for
fullRanking ==
  IF request.jobId # ""
    THEN findCandidatesForJob(findJobById(request.jobId), Len(candidates))
    ELSE matchCandidateAgainstAllJobs(findCandidateById(request.candidateId))

\* C15: a ranking returned for a limit n, for a job as for a candidate,
\* holds at most n results, the n highest-scoring ones
C15_RankingsHonourLimit ==
  ranked =>
    /\ Len(outcome.results) <= limit
    /\ outcome.results = sliceTo(fullRanking, limit)

\* the same match request was answered twice
matchedTwice ==
  /\ pc = "done"
  /\ operation = "match"
  /\ invocations = 2
  /\ previous.operation = "match"
  /\ previous.request = request

methodRank(method) ==
  CASE method = "analyzeSkillTransferability" -> 1
    [] method = "assessCulturalFit" -> 2
    [] method = "assessLearningPotential" -> 3
    [] method = "validateExperience" -> 4

\* how many calls of a method the request has issued so far
callsOf(method) ==
  Cardinality({i \in 1..Len(aiLog) : aiLog[i].method = method})

\* C23: the collaborator calls of one match request come one after another
\* in a fixed order and within fixed caps: at most 3 of
\* analyzeSkillTransferability, then at most 1 assessCulturalFit, then at
\* most 2 of assessLearningPotential, then at most 3 of validateExperience
C23_AICallsOrderedWithinCaps ==
  /\ \A i, k \in 1..Len(aiLog) :
       i < k => methodRank(aiLog[i].method) <= methodRank(aiLog[k].method)
  /\ callsOf("analyzeSkillTransferability") <= 3
  /\ callsOf("assessCulturalFit") <= 1
  /\ callsOf("assessLearningPotential") <= 2
  /\ callsOf("validateExperience") <= 3
  /\ Len(aiLog) <= 9

\* a match of a candidate with four experience records against a job with
\* more than three missing skills has issued all nine calls
C23_Witness ==
  /\ operation = "match" /\ pc = "done"
  /\ job # Undefined /\ candidate # Undefined
  /\ Len(candidate.experience) > 3
  /\ Len(missingSkillsOf(candidate, job)) > 3
  /\ Len(aiLog) = 9

\* a match was answered with a result and a ranking was returned after it
rankedAfterMatch ==
  /\ ranked
  /\ invocations = 2
  /\ previous.operation = "match"
  /\ previous.outcome.kind = "response"

\* C25: the entry a ranking returns for a job and a candidate has the score,
\* the explanation and the recommendations of the result match returns for
\* the pair under the same AI configuration
C25_RankingEntryIsMatchResult ==
  rankedAfterMatch =>
    \A i \in 1..Len(outcome.results) :
      LET entry == outcome.results[i]
          result == previous.outcome.result IN
      (entry.job.id = result.job.id
         /\ entry.candidate.id = result.candidate.id)
        => /\ entry.score = result.score
           /\ entry.explanation = result.explanation
           /\ entry.recommendations = result.recommendations

(***************************************************************************)
(* Properties of the rate limiter                                           *)
(***************************************************************************)
\* C19: any two first attempts of makeOpenAICall, the requests that follow
\* a cache miss and enforceRateLimit, go out at least RATE_LIMIT_DELAY
\* apart, however the calls interleave
C19_FirstRequestsSpaced ==
  \A i, k \in 1..Len(sent) :
    (i < k /\ sent[i].attempt = 1 /\ sent[k].attempt = 1) =>
      sent[k].time - sent[i].time >= RATE_LIMIT_DELAY

\* the positions in the log of the requests caller p has sent
sentBy(p) == {i \in 1..Len(sent) : sent[i].caller = p}

\* the steps the calls can still take, timers and requests counted
remainingCallSteps ==
  SumInt([p \in Callers |->
            CASE callerCall[p] = Undefined -> 0
              [] callerPc[p] = "ready" -> 2 * MAX_RETRIES + 2
              [] callerPc[p] = "delayed" -> 2 * MAX_RETRIES + 1
              [] callerPc[p] = "requesting" ->
                   2 * (MAX_RETRIES - attempts[p]) + 1
              [] callerPc[p] = "backoff" -> 2 * (MAX_RETRIES - attempts[p])
              [] callerPc[p] = "returned" -> 0])

\* C26: one makeOpenAICall sends at most MAX_RETRIES attempts, attempt
\* k + 1 at least k x 1000 ms after attempt k; a failed last attempt is
\* followed by no wait; the call ends in a return, never in an exception,
\* every step but the passing of time bringing the return nearer; and when
\* it returns success false the method returns its mock, which has the
\* fields of a parsed result
C26_RetriesBoundedThenFallback ==
  /\ [](\A p \in Callers :
          /\ Cardinality(sentBy(p)) = attempts[p]
          /\ attempts[p] <= MAX_RETRIES
          /\ \A i, k \in sentBy(p) :
               sent[k].attempt = sent[i].attempt + 1 =>
                 sent[k].time - sent[i].time >= sent[i].attempt * 1000
          /\ callerPc[p] \in
               {"ready", "delayed", "requesting", "backoff", "returned"}
          /\ callerPc[p] = "requesting" => attempts[p] >= 1
          /\ callerPc[p] = "backoff" => attempts[p] < MAX_RETRIES
          /\ callerPc[p] = "returned" =>
               /\ callerResult[p].response.success \in BOOLEAN
               /\ ~callerResult[p].response.success =>
                    /\ attempts[p] = MAX_RETRIES
                    /\ callerResult[p].analysis = mockResult(callerCall[p])
                    /\ DOMAIN callerResult[p].analysis
                         = DOMAIN parsedResult(callerCall[p],
                                               FieldNumber(Frac(1, 4))))
  /\ [][remainingCallSteps' < remainingCallSteps \/ clock' > clock]_vars

\* a call that lost its three attempts, sent at 1000, 2000 and 4000 ms, and
\* whose method returned the mock
C26_Witness ==
  \E p \in Callers :
    /\ callerPc[p] = "returned"
    /\ ~callerResult[p].response.success
    /\ attempts[p] = MAX_RETRIES
    /\ \E i, k, m \in sentBy(p) :
         /\ sent[i].attempt = 1 /\ sent[k].attempt = 2 /\ sent[m].attempt = 3
         /\ sent[k].time - sent[i].time = 1000
         /\ sent[m].time - sent[k].time = 2000
    /\ callerResult[p].analysis = mockResult(callerCall[p])

\* an outbound request for the key has been answered with content
answeredFor(key) ==
  \E q \in Callers :
    /\ callerCall[q] # Undefined
    /\ cacheKeyOf(callerCall[q]) = key
    /\ callerPc[q] = "returned"
    /\ attempts[q] >= 1
    /\ callerResult[q].response.success

\* caller p enters makeOpenAICall in this step
enters(p) == callerPc[p] = "ready" /\ callerPc'[p] # "ready"

setCacheStep ==
  /\ invocations' = invocations + 1
  /\ cacheReply'.op = "setCache"

\* the entries under other keys than the one set that the step removed are
\* as many as a full cache loses and none of them expires later than an
\* entry the step kept; the entry the key was held under may be one of the
\* removed, the new entry taking its place
removedEarliest ==
  \E key \in {cacheReply'.key}, keysAfter \in {dataCacheKeys(dataCache')} :
    \E gone \in {{i \in 1..Len(dataCache) :
                    /\ dataCache[i].key # key
                    /\ dataCache[i].key \notin keysAfter}},
       kept \in {{i \in 1..Len(dataCache) :
                    /\ dataCache[i].key # key
                    /\ dataCache[i].key \in keysAfter}} :
      \E goneTimes \in {{dataCache[i].expiryTime : i \in gone}},
         keptTimes \in {{dataCache[i].expiryTime : i \in kept}},
         own \in {dataCacheGet(dataCache, key)} :
        /\ \A t \in goneTimes, u \in keptTimes : t <= u
        /\ \/ Cardinality(gone) = entriesToRemove
           \/ /\ Cardinality(gone) = entriesToRemove - 1
              /\ own # Undefined
              /\ \A u \in keptTimes : own.expiryTime <= u
        /\ Len(dataCache') = Cardinality(kept) + 1

\* C29: whatever setCache, getCached, hasCached, cleanupCache and clearCache
\* calls were made, the cache holds at most maxCacheSize (1000) entries; a
\* setCache on a full cache removes the entriesToRemove (100) entries of
\* earliest expiry time and then inserts, a setCache on any other cache
\* removes nothing; the key set last is in the cache after the call
C29_CacheBoundedByEviction ==
  /\ [](Len(dataCache) <= maxCacheSize)
  /\ [](cacheReply # Undefined /\ cacheReply.op = "setCache"
          => /\ cacheReply.key \in dataCacheKeys(dataCache)
             /\ dataCacheGet(dataCache, cacheReply.key).data = "new")
  /\ [][setCacheStep =>
          IF Len(dataCache) >= maxCacheSize
            THEN removedEarliest
            ELSE dataCacheKeys(dataCache') =
                   dataCacheKeys(dataCache) \cup {cacheReply'.key}]_vars

\* a first setCache found the cache full and left it a tenth smaller, the
\* key it set included
C29_Witness ==
  /\ pc = "cache"
  /\ invocations = 1
  /\ cacheReply # Undefined
  /\ cacheReply.op = "setCache"
  /\ Len(dataCache) = maxCacheSize - entriesToRemove + 1
  /\ cacheReply.key \in dataCacheKeys(dataCache)

(***************************************************************************)
(* Properties of the performance optimizer's debounce                       *)
(***************************************************************************)
\* the call of a debounced function of the key made last before the event
lastCallBefore(key, r) ==
  CHOOSE c \in 1..(r - 1) :
    /\ runs[c].kind = "call" /\ runs[c].key = key
    /\ \A e \in (c + 1)..(r - 1) : ~(runs[e].kind = "call" /\ runs[e].key = key)

\* every live timer is the one debounceTimers records for its key
liveTimersTracked ==
  \A t \in liveTimers : [key |-> t.of.key, timer |-> t.id] \in debounceTimers

\* every run of a func is the run of the call made last for its key, with
\* that call's arguments, no sooner than the delay after it, and the first
\* run since that call
runsAreOfLastCall ==
  \A r \in 1..Len(runs) :
    runs[r].kind = "run" =>
      /\ \E c \in 1..(r - 1) : runs[c].kind = "call" /\ runs[c].key = runs[r].key
      /\ LET c == lastCallBefore(runs[r].key, r)
         IN /\ runs[c].func = runs[r].func
            /\ runs[c].args = runs[r].args
            /\ runs[c].at + runs[c].delay <= runs[r].at
            /\ \A e \in (c + 1)..(r - 1) :
                 ~(runs[e].kind = "run" /\ runs[e].key = runs[r].key)

\* C30: among the calls of debounced functions sharing a key only the call
\* made last runs its function, once and with its arguments; a key has at
\* most one live timer at any moment and it is the one debounceTimers
\* records, also after a function that called the debounced function again
\* has run
C30_OneTrackedTimerPerKey ==
  /\ liveTimersTracked
  /\ \A t, u \in liveTimers : t.of.key = u.of.key => t = u
  /\ runsAreOfLastCall

\* as C30, for behaviours in which no function that calls its debounced
\* function again has been called
C30_HoldsWithoutReentry ==
  (\A e \in 1..Len(runs) : runs[e].func # "again") => C30_OneTrackedTimerPerKey

(***************************************************************************)
(* Properties of the normalizer                                             *)
(***************************************************************************)
\* the name is a key of the registry entry, apart from letter case and
\* surrounding whitespace
namesKeyOf(name, skill) ==
  \E k \in keysOf(skill) : trim(toLowerCase(name)) = toLowerCase(k)

matchesNothing(name) ==
  LET normalizedName == trim(toLowerCase(name)) IN
  /\ normalizedName \notin DOMAIN skillMap
  /\ normalizedName \notin DOMAIN aliasMap
  /\ normalizedName \notin DOMAIN fuzzyMatchVariations
  /\ \A i \in 1..Len(skills) :
       ~partialMatch(skills[i], normalizedName,
                     toLowerCase(skills[i].canonicalName))

\* C11: normalizeSkill returns a name that matches no id, canonical name,
\* alias, abbreviation or substring rule exactly as it was given, letter
\* case and whitespace included
C11_UnmatchedNameReturnedUnchanged ==
  (pc = "normalized" /\ matchesNothing(skillName)) => normalized = skillName

\* an unknown mixed-case name wrapped in whitespace comes back as given
C11_Witness ==
  /\ pc = "normalized"
  /\ skillName = "\t FooBarSkill \n"
  /\ matchesNothing(skillName)
  /\ normalized = "\t FooBarSkill \n"

\* the text has the canonical name or an alias of the registry entry as a
\* substring, letter case apart
occursIn(txt, skill) ==
  \/ includes(toLowerCase(txt), toLowerCase(skill.canonicalName))
  \/ \E j \in 1..Len(skill.aliases) :
       includes(toLowerCase(txt), toLowerCase(skill.aliases[j]))

isRegisteredId(skillId) == \E i \in 1..Len(skills) : skills[i].id = skillId

\* the relatedSkills list of the registry entry with this id
relatedSkillsOf(skillId) ==
  SeqToSet(skills[CHOOSE i \in 1..Len(skills) : skills[i].id = skillId]
             .relatedSkills)

\* C13: areSkillsRelated is true exactly when both ids are registered and
\* one lists the other in relatedSkills; it is false when either id is not
\* a registered skill id
C13_RelatedExactlyOneHopOfRegisteredIds ==
  pc = "related" =>
    areRelated = (/\ isRegisteredId(querySkill1)
                  /\ isRegisteredId(querySkill2)
                  /\ \/ querySkill2 \in relatedSkillsOf(querySkill1)
                     \/ querySkill1 \in relatedSkillsOf(querySkill2))

====
